---------------------------- MODULE Spec2Model ----------------------------
(***************************************************************************)
(* Service-call tracking application (sh9dream/hello-world).               *)
(*                                                                         *)
(* Five programs of the repository are modelled, each under its own        *)
(* specification over a shared set of variables:                           *)
(*   SpecFetch      the paginated loaders of Dashboard.py,                 *)
(*                  mobile_service_log.py, mobile_service_log_backup2.py   *)
(*                  and update_log.py, one range request per step;         *)
(*   SpecForms      the session state machine of the two mobile forms      *)
(*                  (mobile_service_log.py, mobile_service_log_backup2.py) *)
(*                  against the backend tables;                            *)
(*   SpecDashboard  the aggregation views of Dashboard.py over the         *)
(*                  in-memory table df_logs;                               *)
(*   SpecMenu       the interactive menu of update_log.py;                 *)
(*   SpecEditors    two sessions of mobile_service_log.py that update the  *)
(*                  same call.                                             *)
(***************************************************************************)
EXTENDS Integers, Sequences, FiniteSets

(***************************************************************************)
(* Bounds of the model.                                                    *)
(***************************************************************************)
\* page_size is 1000 in every loader; the model scales it down so that
\* tables of several pages stay small.
page_size == 3
\* largest number of rows of the table a fetch reads
MaxRows == 7
\* cap of the session's version counter
MaxVersion == 1
\* cap of the number of rows inserted into the staging table
MaxPending == 1
\* ticks of the clock in one day
TicksPerDay == 2
\* largest table of the dashboard drawn from rows of one status
MaxDashRows == 6
\* largest table of the dashboard drawn from rows of several kinds
MaxMixedRows == 2
\* largest table of the dashboard drawn from solved calls
MaxSolvedRows == 3
\* largest table of the dashboard drawn from calls of a few groups
MaxGroupRows == 3

VARIABLES
    \* ---- paginated fetch (SpecFetch)
    loader,        \* which loader function is running
    table_rows,    \* the remote table: a sequence of distinct row ids
    rows_at_start, \* history: the table when the fetch began
    start,         \* local `start` of the loader
    all_data,      \* local `all_data` of the loader
    requests,      \* history: the range requests issued so far
    fetch_pc,      \* "loop" | "done"
    fetch_failed,  \* a range request of this fetch raised
    fetch_raised,  \* the loader itself ended with an uncaught exception
    fetch_result,  \* rows of the DataFrame returned to the caller
    \* ---- mobile forms (SpecForms)
    app,                      \* which page script the session runs
    mobile_mode,              \* st.session_state.mobile_mode
    mobile_version,           \* st.session_state.mobile_version
    form_submitted,           \* st.session_state.form_submitted
    update_success,           \* st.session_state.update_success
    serial_lookup_mode,       \* st.session_state.serial_lookup_mode
    looked_up_data,           \* st.session_state.looked_up_data
    selected_call_for_update, \* st.session_state.selected_call_for_update
    Service_Log,              \* backend table of live calls
    Service_Log_Pending,      \* backend staging table
    Instruments,              \* backend reference table
    cache,                    \* st.cache_data entries of load_paginated_data
    errors,                   \* validation errors shown by the last run
    missing_fields,           \* history: required fields the last submission left out
    failed_request,           \* history: the request that raised in the last run
    run_pc,                   \* "idle" | "rerun": st.rerun() is pending
    uncaught,                 \* the last script run ended in an uncaught exception
    \* ---- dashboard (SpecDashboard)
    dashboard_version,  \* st.session_state.dashboard_version
    dash_cache,         \* st.cache_data entry of load_all_service_logs
    df_logs,            \* the preprocessed table of the current run
    dash_pc,            \* "run" | "done" | "stopped"
    overdue_calls,      \* the sorted frame of overdue calls
    overdue_shown,      \* the cards drawn from it
    overdue_more,       \* the count of the "more overdue calls" line, 0 if none
    on_hold_df,         \* the sorted frame of calls on hold
    on_hold_shown,      \* the cards drawn from it
    on_hold_more,       \* the count of the "more on-hold calls" line, 0 if none
    avg_resolution,     \* the average resolution time
    trend,              \* the month-over-month trend of the KPI row
    status_counts,      \* df_logs['status'].value_counts()
    daily_calls,        \* daily counts of the last 60 days
    status_by_week,     \* weekly counts by (week, status)
    call_type_dist,     \* counts by call_type
    warranty_dist,      \* counts by warranty_status
    tech_stats,         \* the per-technician rollup
    customer_stats,     \* the per-customer rollup
    \* ---- service log manager (SpecMenu)
    menu_pc,            \* "menu" | "exited" | "raised"
    menu_output,        \* what the last option printed
    menu_frame,         \* the rows of the DataFrame the last option printed
    menu_choice,        \* history: the option and the sort field typed last
    menu_requested,     \* history: the last option sent a request to the backend
    \* ---- two sessions updating one call (SpecEditors)
    live_call,          \* the row of the call in Service_Log
    call,               \* per session: the row of its df_logs (its snapshot)
    widgets,            \* per session: the values of the widgets of the form
    edited,             \* per session: the widgets the user changed
    editor_pc,          \* per session: "list" | "form" | "saved"
    write_order,        \* history: the sessions whose update was executed
    now                 \* datetime.now(), in seconds

fetchVars == <<loader, table_rows, rows_at_start, start, all_data, requests, fetch_pc,
               fetch_failed, fetch_raised, fetch_result>>

sessionVars == <<mobile_mode, mobile_version, form_submitted, update_success,
                 serial_lookup_mode, looked_up_data, selected_call_for_update>>

backendVars == <<Service_Log, Service_Log_Pending, Instruments>>

formVars == <<app, sessionVars, backendVars, cache, errors, missing_fields,
              failed_request, run_pc,
              uncaught>>

dashVars == <<dashboard_version, dash_cache, df_logs, dash_pc, overdue_calls,
              overdue_shown, overdue_more, on_hold_df, on_hold_shown, on_hold_more,
              avg_resolution, trend, status_counts, daily_calls, status_by_week,
              call_type_dist, warranty_dist, tech_stats, customer_stats>>

menuVars == <<menu_pc, menu_output, menu_frame, menu_choice, menu_requested>>

editVars == <<live_call, call, widgets, edited, editor_pc, write_order, now>>

vars == <<fetchVars, formVars, dashVars, menuVars, editVars>>

(***************************************************************************)
(* Helpers                                                                 *)
(***************************************************************************)
Min(a, b) == IF a <= b THEN a ELSE b
Max(a, b) == IF a >= b THEN a ELSE b

\* ceil(n / p) for n >= 0, p > 0
CeilDiv(n, p) == (n + p - 1) \div p

(***************************************************************************)
(* The remote table API: select(columns).range(first, last) returns the    *)
(* rows at the 0-based indices first..last that exist, in index order.     *)
(***************************************************************************)
RangeQuery(tbl, first, last) ==
    IF first >= Len(tbl) THEN <<>>
    ELSE SubSeq(tbl, first + 1, Min(last + 1, Len(tbl)))

(***************************************************************************)
(* The five copies of the pagination loop.                                 *)
(***************************************************************************)
DashboardLogs        == "Dashboard.load_all_service_logs"
DashboardInstruments == "Dashboard.load_all_instruments"
MobileLoader         == "mobile_service_log.load_paginated_data"
Backup2Loader        == "mobile_service_log_backup2.load_paginated_data"
UpdateLogLoader      == "update_log.load_paginated_data"

\* loaders whose try block wraps the whole loop and that break on a short page
EarlyBreakLoaders == {DashboardLogs, DashboardInstruments, MobileLoader}
\* loaders whose try block wraps one request and that break on an empty page only
PlainLoaders == {Backup2Loader, UpdateLogLoader}
Loaders == EarlyBreakLoaders \cup PlainLoaders

\* end = start + page_size - 1, the last index of the requested range
RangeEndOffByOne(s) == s + page_size
RangeEnd(s) == s + page_size - 1

\* start += page_size
NextStartOverlapping(s) == s + page_size - 1
NextStart(s) == s + page_size

\* the request log entry of one range request
Request(s, batch) == [from |-> s, to |-> RangeEnd(s), got |-> Len(batch)]

\* return pd.DataFrame(all_data) if all_data else pd.DataFrame()
ReturnFrame(rows) ==
    /\ fetch_pc' = "done"
    /\ fetch_result' = rows

(***************************************************************************)
(* One successful iteration of the loop with the early break               *)
(* (Dashboard.py 52-68, mobile_service_log.py 106-120).                    *)
(***************************************************************************)
EarlyBreakPage ==
    /\ fetch_pc = "loop"
    /\ loader \in EarlyBreakLoaders
    /\ LET batch == RangeQuery(table_rows, start, RangeEnd(start)) IN
        /\ requests' = Append(requests, Request(start, batch))
        /\ IF batch = <<>>
           THEN \* if not batch: break
                /\ ReturnFrame(all_data)
                /\ UNCHANGED <<all_data, start>>
           ELSE /\ all_data' = all_data \o batch
                /\ IF Len(batch) < page_size
                   THEN \* last page: break
                        /\ ReturnFrame(all_data')
                        /\ UNCHANGED start
                   ELSE /\ start' = NextStart(start)
                        /\ UNCHANGED <<fetch_pc, fetch_result>>
    /\ UNCHANGED <<loader, table_rows, rows_at_start, fetch_failed, fetch_raised>>
    /\ UNCHANGED <<formVars, dashVars, menuVars, editVars>>

(***************************************************************************)
(* A request of an early-break loader raises: the except clause around the *)
(* loop reports the error and returns an empty DataFrame.                  *)
(***************************************************************************)
EarlyBreakFail ==
    /\ fetch_pc = "loop"
    /\ loader \in EarlyBreakLoaders
    /\ requests' = Append(requests, [from |-> start, to |-> RangeEnd(start), got |-> 0])
    /\ fetch_failed' = TRUE
    /\ ReturnFrame(<<>>)
    /\ UNCHANGED <<loader, table_rows, rows_at_start, start, all_data, fetch_raised>>
    /\ UNCHANGED <<formVars, dashVars, menuVars, editVars>>

(***************************************************************************)
(* One successful iteration of the loop without the early break            *)
(* (mobile_service_log_backup2.py 47-61, update_log.py 34-48).             *)
(***************************************************************************)
PlainPage ==
    /\ fetch_pc = "loop"
    /\ loader \in PlainLoaders
    /\ LET batch == RangeQuery(table_rows, start, RangeEnd(start)) IN
        /\ requests' = Append(requests, Request(start, batch))
        /\ IF batch = <<>>
           THEN /\ ReturnFrame(all_data)
                /\ UNCHANGED <<all_data, start>>
           ELSE /\ all_data' = all_data \o batch
                /\ start' = NextStart(start)
                /\ UNCHANGED <<fetch_pc, fetch_result>>
    /\ UNCHANGED <<loader, table_rows, rows_at_start, fetch_failed, fetch_raised>>
    /\ UNCHANGED <<formVars, dashVars, menuVars, editVars>>

(***************************************************************************)
(* A request of the backup form's loader raises: the except clause around  *)
(* the request reports the error and breaks, and the rows accumulated so   *)
(* far are returned.                                                       *)
(***************************************************************************)
Backup2Fail ==
    /\ fetch_pc = "loop"
    /\ loader = Backup2Loader
    /\ requests' = Append(requests, [from |-> start, to |-> RangeEnd(start), got |-> 0])
    /\ fetch_failed' = TRUE
    /\ ReturnFrame(all_data)
    /\ UNCHANGED <<loader, table_rows, rows_at_start, start, all_data, fetch_raised>>
    /\ UNCHANGED <<formVars, dashVars, menuVars, editVars>>

(***************************************************************************)
(* A request of update_log's loader raises: the except clause calls        *)
(* st.error, but update_log.py never imports st, so the handler itself     *)
(* raises NameError and the loader ends with an uncaught exception.        *)
(***************************************************************************)
UpdateLogFail ==
    /\ fetch_pc = "loop"
    /\ loader = UpdateLogLoader
    /\ requests' = Append(requests, [from |-> start, to |-> RangeEnd(start), got |-> 0])
    /\ fetch_failed' = TRUE
    /\ fetch_raised' = TRUE
    /\ ReturnFrame(<<>>)
    /\ UNCHANGED <<loader, table_rows, rows_at_start, start, all_data>>
    /\ UNCHANGED <<formVars, dashVars, menuVars, editVars>>

\* all_data = [], start = 0, for any loader and any table size
InitFetch ==
    /\ loader \in Loaders
    /\ table_rows \in {[i \in 1..n |-> i] : n \in 0..MaxRows}
    /\ rows_at_start = table_rows
    /\ start = 0
    /\ all_data = <<>>
    /\ requests = <<>>
    /\ fetch_pc = "loop"
    /\ fetch_failed = FALSE
    /\ fetch_raised = FALSE
    /\ fetch_result = <<>>

(***************************************************************************)
(* Another client inserts a row while the loader is between two range      *)
(* requests. The table is append-only: the new row gets the next id and    *)
(* the last index, and no row is deleted or moved.                         *)
(***************************************************************************)
AppendRow ==
    /\ fetch_pc = "loop"
    /\ Len(table_rows) < MaxRows
    /\ table_rows' = Append(table_rows, Len(table_rows) + 1)
    /\ UNCHANGED <<loader, rows_at_start, start, all_data, requests, fetch_pc,
                   fetch_failed, fetch_raised, fetch_result>>
    /\ UNCHANGED <<formVars, dashVars, menuVars, editVars>>

NextFetch ==
    \/ EarlyBreakPage
    \/ EarlyBreakFail
    \/ PlainPage
    \/ Backup2Fail
    \/ UpdateLogFail


\* no fetch is running
FetchIdle ==
    /\ loader = DashboardLogs
    /\ table_rows = <<>>
    /\ rows_at_start = <<>>
    /\ start = 0
    /\ all_data = <<>>
    /\ requests = <<>>
    /\ fetch_pc = "done"
    /\ fetch_failed = FALSE
    /\ fetch_raised = FALSE
    /\ fetch_result = <<>>

(***************************************************************************)
(* Text values.  A Python string is a sequence of characters, so that      *)
(* str.strip() and str.lower() are computed and not assumed.  A widget      *)
(* label such as "Select..." is a text of one element that is no blank.    *)
(***************************************************************************)
Empty == <<>>
Blank == <<" ">>

RECURSIVE LStrip(_)
LStrip(s) == IF s # <<>> /\ Head(s) = " " THEN LStrip(Tail(s)) ELSE s

RECURSIVE RStrip(_)
RStrip(s) ==
    IF s # <<>> /\ s[Len(s)] = " " THEN RStrip(SubSeq(s, 1, Len(s) - 1)) ELSE s

\* str.strip()
Strip(s) == RStrip(LStrip(s))

LowerChar(c) == CASE c = "S" -> "s" [] c = "N" -> "n" [] OTHER -> c
\* str.lower()
Lower(s) == [i \in 1..Len(s) |-> LowerChar(s[i])]

\* placeholder choices of the select boxes
SelectCustomer   == <<"Select Customer...">>
SelectDots       == <<"Select...">>
SelectInstrument == <<"Select Instrument...">>
SelectTechnician == <<"Select Technician...">>

\* sample values typed or chosen in the forms
Acme == <<"A", "c", "m", "e">>
Hplc == <<"H", "P", "L", "C">>
Ravi == <<"R", "a", "v", "i">>
Leak == <<" ", "l", "e", "a", "k">>
Done == <<"d", "o", "n", "e", " ">>

\* status = st.selectbox("Status *", [...])
Statuses == {"Open", "On_Hold", "Waiting for Parts", "Solved"}
\* df_logs['status'].isin(['Open', 'On_Hold', 'Waiting for Parts'])
Unsolved == {"Open", "On_Hold", "Waiting for Parts"}

MobileApp  == "mobile_service_log"
Backup2App == "mobile_service_log_backup2"

\* Python None for st.session_state.looked_up_data
None == <<>>
\* Python None for st.session_state.selected_call_for_update
NoCall == "None"

\* call ids of the live table
CallIds == <<"c1", "c2">>

\* the one instrument of the reference table; its serial number is stored
\* with a trailing blank
InstrumentRow ==
    [instrument_name |-> Hplc, customer_name |-> Acme,
     serial_number |-> <<"S", "N", "1", " ">>]

\* serial numbers typed into the lookup box
SerialInputs == {Empty, Blank, <<" ", "s", "n", "1">>, <<"S", "N", "2">>}

(***************************************************************************)
(* st.cache_data: one entry per (table, columns), tagged with the version  *)
(* argument it was computed for.                                           *)
(***************************************************************************)
KeyLogsStatus  == "Service_Log|status"
KeyLogsAll     == "Service_Log|*"
KeyInstruments == "Instruments|instrument_name, customer_name, serial_number"
CacheKeys == {KeyLogsStatus, KeyLogsAll, KeyInstruments}

NotCached == [version |-> 0 - 1, data |-> <<>>]
EmptyCache == [k \in CacheKeys |-> NotCached]

\* the rows select(columns) returns for a cache key
BackendData(key) ==
    CASE key = KeyLogsAll -> Service_Log
      [] key = KeyLogsStatus ->
            [i \in 1..Len(Service_Log) |-> [status |-> Service_Log[i].status]]
      [] OTHER -> Instruments

CacheHit(key) == cache[key].version = mobile_version

\* load_paginated_data(table, columns, version): the cached frame, or the
\* fetched table, or an empty frame when the fetch fails
Loaded(key, ok) ==
    IF CacheHit(key) THEN cache[key].data
    ELSE IF ok THEN BackendData(key) ELSE <<>>

\* the outcome ok of a fetch is an input only when the call misses the cache
FetchOutcome(key, ok) == CacheHit(key) => ok

\* the cache after that call: the returned frame is memoised, also the empty one
CacheAfter(key, ok) ==
    IF CacheHit(key) THEN cache
    ELSE [cache EXCEPT ![key] = [version |-> mobile_version, data |-> Loaded(key, ok)]]

\* st.session_state.mobile_version += 1
BumpVersionStuck(v) == v
BumpVersion(v) == v + 1

\* st.cache_data.clear()
ClearCache(c) == EmptyCache

\* ids of the rows of a frame
IdsOf(df) == {df[i].call_id : i \in 1..Len(df)}

\* update(update_data).eq("call_id", id): every row with that id is changed
UpdateRows(tbl, id, status) ==
    [i \in 1..Len(tbl) |->
        IF tbl[i].call_id = id THEN [tbl[i] EXCEPT !.status = status] ELSE tbl[i]]

(***************************************************************************)
(* Navigation helpers of mobile_service_log.py                             *)
(***************************************************************************)
go_to_homeKeepsLookupMode ==
    /\ mobile_mode' = "home"
    /\ form_submitted' = FALSE
    /\ update_success' = FALSE
    /\ selected_call_for_update' = NoCall
    /\ looked_up_data' = None
    /\ UNCHANGED <<mobile_version, serial_lookup_mode>>
go_to_home ==
    /\ mobile_mode' = "home"
    /\ form_submitted' = FALSE
    /\ update_success' = FALSE
    /\ selected_call_for_update' = NoCall
    /\ serial_lookup_mode' = FALSE
    /\ looked_up_data' = None
    /\ UNCHANGED mobile_version

go_to_new_log ==
    /\ mobile_mode' = "new_log"
    /\ form_submitted' = FALSE
    /\ serial_lookup_mode' = FALSE
    /\ looked_up_data' = None
    /\ UNCHANGED <<mobile_version, update_success, selected_call_for_update>>

go_to_update_log ==
    /\ mobile_mode' = "update_log"
    /\ update_success' = FALSE
    /\ selected_call_for_update' = NoCall
    /\ UNCHANGED <<mobile_version, form_submitted, serial_lookup_mode, looked_up_data>>

\* a script run that ends normally without st.rerun()
RunEnds == run_pc' = "idle" /\ uncaught' = FALSE
\* a script run that ends in st.rerun()
RunReruns == run_pc' = "rerun" /\ uncaught' = FALSE
\* a script run that ends in an uncaught exception
RunRaises == run_pc' = "idle" /\ uncaught' = TRUE

\* the user can use a widget that the previous run has drawn
WidgetsDrawn == run_pc = "idle" /\ ~uncaught

(***************************************************************************)
(* mobile_service_log.py: the widgets of the new-log form                  *)
(***************************************************************************)
\* what the instrument (or technician) widget holds when Submit is pressed:
\* a select box choice, the text typed after choosing "Other", or the text
\* typed into the plain text input shown when there is no list
MobileWidgets(name) ==
    {[kind |-> "select", value |-> SelectDots],
     [kind |-> "other",  value |-> name],
     [kind |-> "text",   value |-> SelectDots]}

\* the widget of a field that has a list to choose from
ListWidgets(name) == {w \in MobileWidgets(name) : w.kind # "text"}

\* instrument_name as lines 465-485 compute it (technician_name: 493-498)
MobileWidgetValue(w) ==
    IF w.kind \in {"other", "text"} THEN w.value
    ELSE IF w.value # SelectDots THEN w.value ELSE Empty

\* customer_name = st.selectbox("Customer Name *", ["Select Customer..."] + customer_list)
CustomerChoices == {SelectCustomer, Acme}

\* problem_description = st.text_area("Customer Complaints *")
ProblemInputs == {Empty, Blank, Leak}

\* the fields the submission handler reads
MobileFields(customer, instrument, technician, problem) ==
    IF serial_lookup_mode /\ looked_up_data # None
    THEN [customer_name |-> Head(looked_up_data).customer_name,
          instrument_name |-> Head(looked_up_data).instrument_name,
          technician_name |-> MobileWidgetValue(technician),
          problem_description |-> problem]
    ELSE [customer_name |-> customer,
          instrument_name |-> MobileWidgetValue(instrument),
          technician_name |-> MobileWidgetValue(technician),
          problem_description |-> problem]

Err(cond, field) == IF cond THEN <<field>> ELSE <<>>

\* History of a submission: the required fields whose widget held nothing or
\* only its placeholder.  In lookup mode the customer and the instrument are
\* the ones of the looked-up row.
Placeholders == {SelectCustomer, SelectDots, SelectInstrument, SelectTechnician}
LeftOut(value) == value = Empty \/ value \in Placeholders
MissingFields(customer, instrument, technician, problem) ==
    LET looked == serial_lookup_mode /\ looked_up_data # None
        c == IF looked THEN Head(looked_up_data).customer_name ELSE customer
        i == IF looked THEN Head(looked_up_data).instrument_name ELSE instrument.value
    IN  {name \in {"customer_name", "instrument_name", "technician_name",
                   "problem_description"} :
            \/ name = "customer_name" /\ LeftOut(c)
            \/ name = "instrument_name" /\ LeftOut(i)
            \/ name = "technician_name" /\ LeftOut(technician.value)
            \/ name = "problem_description" /\ LeftOut(problem)}

\* the errors list of lines 515-524
MobileErrorsNoTechnician(f) ==
       Err(f.customer_name = Empty \/ f.customer_name = SelectCustomer, "customer_name")
    \o Err(f.instrument_name = Empty \/ f.instrument_name = SelectDots, "instrument_name")
    \o Err(f.problem_description = Empty \/ Strip(f.problem_description) = Empty,
           "problem_description")
MobileErrors(f) ==
       Err(f.customer_name = Empty \/ f.customer_name = SelectCustomer, "customer_name")
    \o Err(f.instrument_name = Empty \/ f.instrument_name = SelectDots, "instrument_name")
    \o Err(f.technician_name = Empty \/ f.technician_name = SelectDots, "technician_name")
    \o Err(f.problem_description = Empty \/ Strip(f.problem_description) = Empty,
           "problem_description")

\* log_data of lines 533-551 (the fields the model follows)
MobileLogData(f) ==
    [customer_name |-> Strip(f.customer_name),
     instrument_name |-> Strip(f.instrument_name),
     technician_name |-> Strip(f.technician_name),
     problem_description |-> Strip(f.problem_description)]

\* supabase.table("Service_Log_Pending").insert(log_data).execute()
InsertLogIntoLive(row) ==
    /\ Service_Log' = Append(Service_Log, [call_id |-> "new", status |-> "Open"])
    /\ UNCHANGED <<Service_Log_Pending, Instruments>>
InsertLog(row) ==
    /\ Service_Log_Pending' = Append(Service_Log_Pending, row)
    /\ UNCHANGED <<Service_Log, Instruments>>

(***************************************************************************)
(* mobile_service_log.py: script runs                                      *)
(***************************************************************************)
\* A run without a widget event (first run, st.rerun(), or a widget change
\* that has no handler): the current screen is drawn and loads its data.
Rerun(ok) ==
    /\ app = MobileApp
    /\ CASE mobile_mode = "home" -> FetchOutcome(KeyLogsStatus, ok)
         [] mobile_mode = "new_log" -> form_submitted \/ FetchOutcome(KeyInstruments, ok)
         [] OTHER -> update_success \/ FetchOutcome(KeyLogsAll, ok)
    /\ (mobile_mode = "new_log" /\ form_submitted) => ok
    /\ (mobile_mode = "update_log" /\ update_success) => ok
    /\ errors' = <<>>
    /\ missing_fields' = {}
    /\ failed_request' = "none"
    /\ UNCHANGED <<app, backendVars, mobile_mode, mobile_version, form_submitted,
                   update_success, serial_lookup_mode, looked_up_data>>
    /\ CASE mobile_mode = "home" ->
                \* quick stats (239)
                /\ cache' = CacheAfter(KeyLogsStatus, ok)
                /\ RunEnds
                /\ UNCHANGED selected_call_for_update
         [] mobile_mode = "new_log" ->
                /\ cache' = IF form_submitted THEN cache
                            ELSE CacheAfter(KeyInstruments, ok)
                /\ RunEnds
                /\ UNCHANGED selected_call_for_update
         [] OTHER ->
                IF update_success
                THEN /\ RunEnds
                     /\ UNCHANGED <<cache, selected_call_for_update>>
                ELSE LET logs_frame == Loaded(KeyLogsAll, ok) IN
                     /\ cache' = CacheAfter(KeyLogsAll, ok)
                     /\ IF selected_call_for_update = NoCall
                        THEN RunEnds /\ UNCHANGED selected_call_for_update
                        ELSE IF logs_frame = <<>>
                        THEN \* df_logs['call_id'] on a frame without columns (622)
                             RunRaises /\ UNCHANGED selected_call_for_update
                        ELSE IF selected_call_for_update \notin IdsOf(logs_frame)
                        THEN \* "Call not found" (624-629)
                             RunEnds /\ selected_call_for_update' = NoCall
                        ELSE RunEnds /\ UNCHANGED selected_call_for_update
    /\ UNCHANGED <<fetchVars, dashVars, menuVars, editVars>>

\* home: "New Service Log" (224-226)
ClickNewServiceLog ==
    /\ app = MobileApp /\ WidgetsDrawn
    /\ mobile_mode = "home"
    /\ go_to_new_log
    /\ RunReruns
    /\ errors' = <<>>
    /\ missing_fields' = {}
    /\ failed_request' = "none"
    /\ UNCHANGED <<app, backendVars, cache>>
    /\ UNCHANGED <<fetchVars, dashVars, menuVars, editVars>>

\* home: "Update Existing" (230-232)
ClickUpdateExisting ==
    /\ app = MobileApp /\ WidgetsDrawn
    /\ mobile_mode = "home"
    /\ go_to_update_log
    /\ RunReruns
    /\ errors' = <<>>
    /\ missing_fields' = {}
    /\ failed_request' = "none"
    /\ UNCHANGED <<app, backendVars, cache>>
    /\ UNCHANGED <<fetchVars, dashVars, menuVars, editVars>>

\* home: "Refresh Data" (262-265); the quick stats above it are loaded first
ClickRefreshData(ok) ==
    /\ app = MobileApp /\ WidgetsDrawn
    /\ mobile_mode = "home"
    /\ mobile_version < MaxVersion
    /\ FetchOutcome(KeyLogsStatus, ok)
    /\ mobile_version' = BumpVersion(mobile_version)
    /\ cache' = ClearCache(CacheAfter(KeyLogsStatus, ok))
    /\ RunReruns
    /\ errors' = <<>>
    /\ missing_fields' = {}
    /\ failed_request' = "none"
    /\ UNCHANGED <<app, backendVars, mobile_mode, form_submitted, update_success,
                   serial_lookup_mode, looked_up_data, selected_call_for_update>>
    /\ UNCHANGED <<fetchVars, dashVars, menuVars, editVars>>

\* "Back to Home" of the new-log and update screens (277, 302, 570, 594):
\* drawn before any data is loaded
BackToHome ==
    /\ app = MobileApp /\ run_pc = "idle"
    /\ mobile_mode \in {"new_log", "update_log"}
    /\ go_to_home
    /\ RunReruns
    /\ errors' = <<>>
    /\ missing_fields' = {}
    /\ failed_request' = "none"
    /\ UNCHANGED <<app, backendVars, cache>>
    /\ UNCHANGED <<fetchVars, dashVars, menuVars, editVars>>

\* new log, after a submission: "Add Another Log" (295-299)
AddAnotherLog ==
    /\ app = MobileApp /\ WidgetsDrawn
    /\ mobile_mode = "new_log" /\ form_submitted
    /\ form_submitted' = FALSE
    /\ serial_lookup_mode' = FALSE
    /\ looked_up_data' = None
    /\ RunReruns
    /\ errors' = <<>>
    /\ missing_fields' = {}
    /\ failed_request' = "none"
    /\ UNCHANGED <<app, backendVars, cache, mobile_mode, mobile_version,
                   update_success, selected_call_for_update>>
    /\ UNCHANGED <<fetchVars, dashVars, menuVars, editVars>>

\* rows of df_instruments whose serial number matches the typed one (377-380)
MatchingSerial(df_instruments, serial_lookup) ==
    SelectSeq(df_instruments,
              LAMBDA r : Lower(Strip(r.serial_number)) = Lower(Strip(serial_lookup)))

\* new log: the serial number lookup button (375-393)
SerialLookup(serial_lookup, ok) ==
    /\ app = MobileApp /\ WidgetsDrawn
    /\ FetchOutcome(KeyInstruments, ok)
    /\ mobile_mode = "new_log" /\ ~form_submitted
    /\ cache' = CacheAfter(KeyInstruments, ok)
    /\ errors' = <<>>
    /\ missing_fields' = {}
    /\ failed_request' = "none"
    /\ LET df_instruments == Loaded(KeyInstruments, ok) IN
       IF serial_lookup = Empty \/ Strip(serial_lookup) = Empty
       THEN RunEnds /\ UNCHANGED <<serial_lookup_mode, looked_up_data>>
       ELSE IF df_instruments = <<>>
       THEN \* df_instruments['serial_number'] on a frame without columns
            RunRaises /\ UNCHANGED <<serial_lookup_mode, looked_up_data>>
       ELSE IF MatchingSerial(df_instruments, serial_lookup) # <<>>
       THEN /\ looked_up_data' = <<Head(MatchingSerial(df_instruments, serial_lookup))>>
            /\ serial_lookup_mode' = TRUE
            /\ RunReruns
       ELSE \* "Not found"
            RunEnds /\ UNCHANGED <<serial_lookup_mode, looked_up_data>>
    /\ UNCHANGED <<app, backendVars, mobile_mode, mobile_version, form_submitted,
                   update_success, selected_call_for_update>>
    /\ UNCHANGED <<fetchVars, dashVars, menuVars, editVars>>

\* new log: "Clear" under the looked-up details (407-410)
ClearLookup(ok) ==
    /\ app = MobileApp /\ WidgetsDrawn
    /\ FetchOutcome(KeyInstruments, ok)
    /\ mobile_mode = "new_log" /\ ~form_submitted
    /\ serial_lookup_mode /\ looked_up_data # None
    /\ cache' = CacheAfter(KeyInstruments, ok)
    /\ serial_lookup_mode' = FALSE
    /\ looked_up_data' = None
    /\ RunReruns
    /\ errors' = <<>>
    /\ missing_fields' = {}
    /\ failed_request' = "none"
    /\ UNCHANGED <<app, backendVars, mobile_mode, mobile_version, form_submitted,
                   update_success, selected_call_for_update>>
    /\ UNCHANGED <<fetchVars, dashVars, menuVars, editVars>>

\* new log: the submission handler (514-562)
SubmitNewLog(customer, instrument, technician, problem, ok, insert_ok) ==
    /\ app = MobileApp /\ WidgetsDrawn
    /\ FetchOutcome(KeyInstruments, ok)
    /\ mobile_mode = "new_log" /\ ~form_submitted
    /\ cache' = CacheAfter(KeyInstruments, ok)
    /\ LET f == MobileFields(customer, instrument, technician, problem) IN
       /\ (MobileErrors(f) = <<>> /\ insert_ok) => Len(Service_Log_Pending) < MaxPending
       \* the outcome of the insert is an input only when the insert is made
       /\ MobileErrors(f) # <<>> => insert_ok
       /\ errors' = MobileErrors(f)
       /\ missing_fields' = MissingFields(customer, instrument, technician, problem)
       /\ failed_request' = IF MobileErrors(f) = <<>> /\ ~insert_ok THEN "insert" ELSE "none"
       /\ IF MobileErrors(f) # <<>>
          THEN \* the errors are shown, nothing is written
               /\ RunEnds
               /\ UNCHANGED <<backendVars, serial_lookup_mode, looked_up_data,
                              form_submitted>>
          ELSE IF insert_ok
          THEN /\ InsertLog(MobileLogData(f))
               /\ serial_lookup_mode' = FALSE
               /\ looked_up_data' = None
               /\ form_submitted' = TRUE
               /\ RunReruns
          ELSE \* the insert raised: st.error, the form stays
               /\ RunEnds
               /\ UNCHANGED <<backendVars, serial_lookup_mode, looked_up_data,
                              form_submitted>>
    /\ UNCHANGED <<app, mobile_mode, mobile_version, update_success,
                   selected_call_for_update>>
    /\ UNCHANGED <<fetchVars, dashVars, menuVars, editVars>>

\* update screen, after a save: "Update Another" (588-591)
UpdateAnother ==
    /\ app = MobileApp /\ WidgetsDrawn
    /\ mobile_mode = "update_log" /\ update_success
    /\ update_success' = FALSE
    /\ selected_call_for_update' = NoCall
    /\ RunReruns
    /\ errors' = <<>>
    /\ missing_fields' = {}
    /\ failed_request' = "none"
    /\ UNCHANGED <<app, backendVars, cache, mobile_mode, mobile_version,
                   form_submitted, serial_lookup_mode, looked_up_data>>
    /\ UNCHANGED <<fetchVars, dashVars, menuVars, editVars>>

\* update screen: the "Update" button of a listed call (display_calls, 184-186).
\* The button exists in this run only for a call of unsolved_df.
SelectCall(call_id, ok) ==
    /\ app = MobileApp /\ WidgetsDrawn
    /\ FetchOutcome(KeyLogsAll, ok)
    /\ mobile_mode = "update_log" /\ ~update_success
    /\ selected_call_for_update = NoCall
    /\ cache' = CacheAfter(KeyLogsAll, ok)
    /\ errors' = <<>>
    /\ missing_fields' = {}
    /\ failed_request' = "none"
    /\ LET logs_frame == Loaded(KeyLogsAll, ok)
           unsolved_df == SelectSeq(logs_frame, LAMBDA r : r.status \in Unsolved)
       IN IF call_id \in IdsOf(unsolved_df)
          THEN selected_call_for_update' = call_id /\ RunReruns
          ELSE UNCHANGED selected_call_for_update /\ RunEnds
    /\ UNCHANGED <<app, backendVars, mobile_mode, mobile_version, form_submitted,
                   update_success, serial_lookup_mode, looked_up_data>>
    /\ UNCHANGED <<fetchVars, dashVars, menuVars, editVars>>

\* status = st.selectbox("Status *", status_options): the choices a run makes
StatusInputs == {"On_Hold", "Solved"}

\* action_taken = st.text_area("Work Done *")
WorkInputs == {Empty, Blank, Done}

\* the session state after the update request raised (704-705): st.error
UpdateRaisedDropsCall ==
    /\ selected_call_for_update' = NoCall
    /\ UNCHANGED update_success
UpdateRaised == UNCHANGED <<update_success, selected_call_for_update>>

\* the session state after the update request (698-699)
UpdateSavedKeepsCall ==
    /\ update_success' = TRUE
    /\ UNCHANGED selected_call_for_update
UpdateSaved ==
    /\ update_success' = TRUE
    /\ selected_call_for_update' = NoCall

\* update screen: "Save" of update_call_form (679-705)
SaveUpdate(action_taken, status, ok, update_ok) ==
    /\ app = MobileApp /\ WidgetsDrawn
    /\ FetchOutcome(KeyLogsAll, ok)
    /\ mobile_mode = "update_log" /\ ~update_success
    /\ selected_call_for_update # NoCall
    /\ missing_fields' = {}
    /\ errors' = IF action_taken = Empty \/ Strip(action_taken) = Empty
                 THEN <<"action_taken">> ELSE <<>>
    /\ LET logs_frame == Loaded(KeyLogsAll, ok)
           attempted == /\ logs_frame # <<>>
                        /\ selected_call_for_update \in IdsOf(logs_frame)
                        /\ ~(action_taken = Empty \/ Strip(action_taken) = Empty)
           written == attempted /\ update_ok
       IN
       /\ written => mobile_version < MaxVersion
       \* the outcome of the update is an input only when the update is made
       /\ ~attempted => update_ok
       /\ failed_request' = IF attempted /\ ~update_ok THEN "update" ELSE "none"
       /\ IF logs_frame = <<>>
          THEN \* df_logs['call_id'] on a frame without columns (622)
               /\ cache' = CacheAfter(KeyLogsAll, ok)
               /\ RunRaises
               /\ UNCHANGED <<Service_Log, update_success, selected_call_for_update,
                              mobile_version>>
          ELSE IF selected_call_for_update \notin IdsOf(logs_frame)
          THEN \* "Call not found": the form is not drawn
               /\ cache' = CacheAfter(KeyLogsAll, ok)
               /\ selected_call_for_update' = NoCall
               /\ RunEnds
               /\ UNCHANGED <<Service_Log, update_success, mobile_version>>
          ELSE IF written
          THEN /\ Service_Log' = UpdateRows(Service_Log, selected_call_for_update, status)
               /\ UpdateSaved
               /\ mobile_version' = BumpVersion(mobile_version)
               /\ cache' = ClearCache(CacheAfter(KeyLogsAll, ok))
               /\ RunReruns
          ELSE IF attempted
          THEN \* the update raised
               /\ cache' = CacheAfter(KeyLogsAll, ok)
               /\ RunEnds
               /\ UpdateRaised
               /\ UNCHANGED <<Service_Log, mobile_version>>
          ELSE \* "Work description required"
               /\ cache' = CacheAfter(KeyLogsAll, ok)
               /\ RunEnds
               /\ UNCHANGED <<Service_Log, update_success, selected_call_for_update,
                              mobile_version>>
    /\ UNCHANGED <<app, Service_Log_Pending, Instruments, mobile_mode, form_submitted,
                   serial_lookup_mode, looked_up_data>>
    /\ UNCHANGED <<fetchVars, dashVars, menuVars, editVars>>

\* update screen: "Cancel" of update_call_form (707-709)
CancelUpdate(ok) ==
    /\ app = MobileApp /\ WidgetsDrawn
    /\ FetchOutcome(KeyLogsAll, ok)
    /\ mobile_mode = "update_log" /\ ~update_success
    /\ selected_call_for_update # NoCall
    /\ cache' = CacheAfter(KeyLogsAll, ok)
    /\ errors' = <<>>
    /\ missing_fields' = {}
    /\ failed_request' = "none"
    /\ LET logs_frame == Loaded(KeyLogsAll, ok) IN
       IF logs_frame = <<>>
       THEN RunRaises /\ UNCHANGED selected_call_for_update
       ELSE IF selected_call_for_update \notin IdsOf(logs_frame)
       THEN RunEnds /\ selected_call_for_update' = NoCall
       ELSE RunReruns /\ selected_call_for_update' = NoCall
    /\ UNCHANGED <<app, backendVars, mobile_mode, mobile_version, form_submitted,
                   update_success, serial_lookup_mode, looked_up_data>>
    /\ UNCHANGED <<fetchVars, dashVars, menuVars, editVars>>

\* ttl of st.cache_data: an entry expires
CacheExpire(key) ==
    /\ run_pc = "idle"
    /\ cache[key] # NotCached
    /\ cache' = [cache EXCEPT ![key] = NotCached]
    /\ UNCHANGED <<app, sessionVars, backendVars, errors, missing_fields,
                   failed_request, run_pc,
                   uncaught>>
    /\ UNCHANGED <<fetchVars, dashVars, menuVars, editVars>>

(***************************************************************************)
(* mobile_service_log_backup2.py                                           *)
(***************************************************************************)
Backup2InstrumentWidgets ==
    {[kind |-> "select", value |-> SelectInstrument],
     [kind |-> "select", value |-> Hplc]}

Backup2TechnicianWidgets ==
    {[kind |-> "select", value |-> SelectTechnician],
     [kind |-> "other",  value |-> Ravi],
     [kind |-> "text",   value |-> Empty]}

\* instrument_name as lines 270-296 compute it (technician_name: 307-318)
Backup2WidgetValue(w, placeholder) ==
    IF w.kind \in {"other", "text"} THEN w.value
    ELSE IF w.value # Empty /\ w.value # placeholder THEN w.value ELSE Empty

Backup2Fields(customer, instrument, technician, problem) ==
    IF serial_lookup_mode /\ looked_up_data # None
    THEN [customer_name |-> Head(looked_up_data).customer_name,
          instrument_name |-> Head(looked_up_data).instrument_name,
          technician_name |-> Backup2WidgetValue(technician, SelectTechnician),
          problem_description |-> problem]
    ELSE [customer_name |-> customer,
          instrument_name |-> Backup2WidgetValue(instrument, SelectInstrument),
          technician_name |-> Backup2WidgetValue(technician, SelectTechnician),
          problem_description |-> problem]

\* the errors list of lines 350-359
Backup2Errors(f) ==
       Err(f.customer_name = Empty \/ f.customer_name = SelectCustomer, "customer_name")
    \o Err(f.instrument_name = Empty \/ f.instrument_name = SelectInstrument,
           "instrument_name")
    \o Err(f.technician_name = Empty \/ f.technician_name = SelectTechnician,
           "technician_name")
    \o Err(f.problem_description = Empty, "problem_description")

\* log_data of lines 369-387 (the fields the model follows)
Backup2LogData(f) ==
    [customer_name |-> f.customer_name,
     instrument_name |-> f.instrument_name,
     technician_name |-> f.technician_name,
     problem_description |-> Strip(f.problem_description)]

\* a run without a widget event: the tables are loaded at the top (74-77)
Backup2Rerun(ok) ==
    /\ app = Backup2App
    /\ FetchOutcome(KeyInstruments, ok)
    /\ cache' = CacheAfter(KeyInstruments, ok)
    /\ RunEnds
    /\ errors' = <<>>
    /\ missing_fields' = {}
    /\ failed_request' = "none"
    /\ UNCHANGED <<app, sessionVars, backendVars>>
    /\ UNCHANGED <<fetchVars, dashVars, menuVars, editVars>>

\* "Add Another Log" (141-143)
Backup2AddAnother(ok) ==
    /\ app = Backup2App /\ WidgetsDrawn
    /\ FetchOutcome(KeyInstruments, ok)
    /\ form_submitted
    /\ cache' = CacheAfter(KeyInstruments, ok)
    /\ form_submitted' = FALSE
    /\ RunReruns
    /\ errors' = <<>>
    /\ missing_fields' = {}
    /\ failed_request' = "none"
    /\ UNCHANGED <<app, backendVars, mobile_mode, mobile_version, update_success,
                   serial_lookup_mode, looked_up_data, selected_call_for_update>>
    /\ UNCHANGED <<fetchVars, dashVars, menuVars, editVars>>

\* the "Lookup" button (167-187)
Backup2Lookup(serial_lookup, ok) ==
    /\ app = Backup2App /\ WidgetsDrawn
    /\ FetchOutcome(KeyInstruments, ok)
    /\ ~form_submitted
    /\ cache' = CacheAfter(KeyInstruments, ok)
    /\ errors' = <<>>
    /\ missing_fields' = {}
    /\ failed_request' = "none"
    /\ LET df_instruments == Loaded(KeyInstruments, ok) IN
       IF serial_lookup = Empty \/ Strip(serial_lookup) = Empty
       THEN RunEnds /\ UNCHANGED <<serial_lookup_mode, looked_up_data>>
       ELSE IF df_instruments = <<>>
       THEN \* df_instruments['serial_number'] on a frame without columns
            RunRaises /\ UNCHANGED <<serial_lookup_mode, looked_up_data>>
       ELSE IF MatchingSerial(df_instruments, serial_lookup) # <<>>
       THEN /\ looked_up_data' = <<Head(MatchingSerial(df_instruments, serial_lookup))>>
            /\ serial_lookup_mode' = TRUE
            /\ RunReruns
       ELSE RunEnds /\ UNCHANGED <<serial_lookup_mode, looked_up_data>>
    /\ UNCHANGED <<app, backendVars, mobile_mode, mobile_version, form_submitted,
                   update_success, selected_call_for_update>>
    /\ UNCHANGED <<fetchVars, dashVars, menuVars, editVars>>

\* "Clear and Enter Manually" (202-205)
Backup2Clear(ok) ==
    /\ app = Backup2App /\ WidgetsDrawn
    /\ FetchOutcome(KeyInstruments, ok)
    /\ ~form_submitted
    /\ serial_lookup_mode /\ looked_up_data # None
    /\ cache' = CacheAfter(KeyInstruments, ok)
    /\ serial_lookup_mode' = FALSE
    /\ looked_up_data' = None
    /\ RunReruns
    /\ errors' = <<>>
    /\ missing_fields' = {}
    /\ failed_request' = "none"
    /\ UNCHANGED <<app, backendVars, mobile_mode, mobile_version, form_submitted,
                   update_success, selected_call_for_update>>
    /\ UNCHANGED <<fetchVars, dashVars, menuVars, editVars>>

\* the submission handler (348-403)
Backup2Submit(customer, instrument, technician, problem, ok, insert_ok) ==
    /\ app = Backup2App /\ WidgetsDrawn
    /\ FetchOutcome(KeyInstruments, ok)
    /\ ~form_submitted
    /\ cache' = CacheAfter(KeyInstruments, ok)
    /\ LET f == Backup2Fields(customer, instrument, technician, problem) IN
       /\ (Backup2Errors(f) = <<>> /\ insert_ok) => Len(Service_Log_Pending) < MaxPending
       /\ Backup2Errors(f) # <<>> => insert_ok
       /\ errors' = Backup2Errors(f)
       /\ missing_fields' = MissingFields(customer, instrument, technician, problem)
       /\ failed_request' = IF Backup2Errors(f) = <<>> /\ ~insert_ok THEN "insert" ELSE "none"
       /\ IF Backup2Errors(f) # <<>>
          THEN \* the errors are shown and st.stop() ends the run
               /\ RunEnds
               /\ UNCHANGED <<backendVars, serial_lookup_mode, looked_up_data,
                              form_submitted>>
          ELSE IF insert_ok
          THEN /\ InsertLog(Backup2LogData(f))
               /\ serial_lookup_mode' = FALSE
               /\ looked_up_data' = None
               /\ form_submitted' = TRUE
               /\ RunReruns
          ELSE /\ RunEnds
               /\ UNCHANGED <<backendVars, serial_lookup_mode, looked_up_data,
                              form_submitted>>
    /\ UNCHANGED <<app, mobile_mode, mobile_version, update_success,
                   selected_call_for_update>>
    /\ UNCHANGED <<fetchVars, dashVars, menuVars, editVars>>

(***************************************************************************)
(* Initial state of a session and of the backend                           *)
(***************************************************************************)
\* the live table: empty, or one open call for each of CallIds
LiveTables ==
    {[i \in 1..n |-> [call_id |-> CallIds[i], status |-> "Open"]] : n \in {0, Len(CallIds)}}

InitForms ==
    /\ app \in {MobileApp, Backup2App}
    /\ mobile_mode = (IF app = MobileApp THEN "home" ELSE "new_log")
    /\ mobile_version = 0
    /\ form_submitted = FALSE
    /\ update_success = FALSE
    /\ serial_lookup_mode = FALSE
    /\ looked_up_data = None
    /\ selected_call_for_update = NoCall
    /\ Service_Log \in LiveTables
    /\ Service_Log_Pending = <<>>
    /\ Instruments = <<InstrumentRow>>
    /\ cache = EmptyCache
    /\ errors = <<>>
    /\ missing_fields = {}
    /\ failed_request = "none"
    /\ run_pc = "rerun"
    /\ uncaught = FALSE

\* the forms are not running
FormsQuiet ==
    /\ app = MobileApp
    /\ mobile_mode = "home"
    /\ mobile_version = 0
    /\ form_submitted = FALSE
    /\ update_success = FALSE
    /\ serial_lookup_mode = FALSE
    /\ looked_up_data = None
    /\ selected_call_for_update = NoCall
    /\ Service_Log_Pending = <<>>
    /\ Instruments = <<>>
    /\ cache = EmptyCache
    /\ errors = <<>>
    /\ missing_fields = {}
    /\ failed_request = "none"
    /\ run_pc = "idle"
    /\ uncaught = FALSE

FormsIdle == FormsQuiet /\ Service_Log = <<>>

NextForms ==
    \/ \E ok \in BOOLEAN : Rerun(ok)
    \/ ClickNewServiceLog
    \/ ClickUpdateExisting
    \/ \E ok \in BOOLEAN : ClickRefreshData(ok)
    \/ BackToHome
    \/ AddAnotherLog
    \/ \E s \in SerialInputs, ok \in BOOLEAN : SerialLookup(s, ok)
    \/ \E ok \in BOOLEAN : ClearLookup(ok)
    \/ \E c \in CustomerChoices, i \in ListWidgets(Hplc), t \in MobileWidgets(Ravi),
          p \in ProblemInputs, ok \in BOOLEAN, insert_ok \in BOOLEAN :
            SubmitNewLog(c, i, t, p, ok, insert_ok)
    \/ UpdateAnother
    \/ \E id \in {CallIds[k] : k \in 1..Len(CallIds)}, ok \in BOOLEAN : SelectCall(id, ok)
    \/ \E a \in WorkInputs, st \in StatusInputs, ok \in BOOLEAN, update_ok \in BOOLEAN :
            SaveUpdate(a, st, ok, update_ok)
    \/ \E ok \in BOOLEAN : CancelUpdate(ok)
    \/ \E k \in CacheKeys : CacheExpire(k)
    \/ \E ok \in BOOLEAN : Backup2Rerun(ok)
    \/ \E ok \in BOOLEAN : Backup2AddAnother(ok)
    \/ \E s \in SerialInputs, ok \in BOOLEAN : Backup2Lookup(s, ok)
    \/ \E ok \in BOOLEAN : Backup2Clear(ok)
    \/ \E c \in CustomerChoices, i \in Backup2InstrumentWidgets,
          t \in Backup2TechnicianWidgets, p \in ProblemInputs,
          ok \in BOOLEAN, insert_ok \in BOOLEAN :
            Backup2Submit(c, i, t, p, ok, insert_ok)

(***************************************************************************)
(* Dashboard.py: the aggregation views over df_logs.                       *)
(* A timestamp is a number of ticks, TicksPerDay ticks to a day, so that   *)
(* the whole days of a difference (.dt.days) are computed by a floor.      *)
(***************************************************************************)
\* pd.NaT: what pd.to_datetime(..., errors='coerce') gives a missing date
NaT == 0 - 1

Day(n) == n * TicksPerDay

\* today = pd.Timestamp(datetime.now().date()): a midnight
Today == Day(400)

DaysAgo(n) == Today - Day(n)

\* Timedelta.days / Series.dt.days: the floor of the difference in days
to_days(td) == td \div TicksPerDay

\* thresholds and display count of the urgent lists and of the average
OverdueDays == 7
DisplayCount == 5
MaxResolutionDays == 365

\* a missing value of a column: None in a row, NaN in the frame
Null == "NULL"

\* A row of Service_Log.  call_id is never missing; the views only count
\* it, and the model does not tell the rows apart by it.
LogRow(s, d, u, technician, customer, type, warranty) ==
    [call_id |-> "id", status |-> s, date_logged |-> d, last_updated |-> u,
     technician_name |-> technician, customer_name |-> customer,
     call_type |-> type, warranty_status |-> warranty]

Row(s, d, u) == LogRow(s, d, u, "A", "P", "Repair", "In Warranty")

\* df_logs['days_open'] = (today - df_logs['date_logged']).dt.days.fillna(0).astype(int)
days_openMissingAsOldest(row) == to_days(Today - row.date_logged)
days_open(row) ==
    IF row.date_logged = NaT THEN 0 ELSE to_days(Today - row.date_logged)

\* df_logs after the preprocessing of lines 128-134
Preprocess(rows) ==
    [i \in 1..Len(rows) |->
        [call_id |-> rows[i].call_id, status |-> rows[i].status,
         date_logged |-> rows[i].date_logged, last_updated |-> rows[i].last_updated,
         technician_name |-> rows[i].technician_name,
         customer_name |-> rows[i].customer_name, call_type |-> rows[i].call_type,
         warranty_status |-> rows[i].warranty_status,
         days_open |-> days_open(rows[i])]]

RECURSIVE argsort(_, _)
\* The index orders an ascending argsort of keys may return for the
\* positions S.  sort_values uses kind='quicksort', which is not stable:
\* positions of equal keys come in any order.
argsort(keys, S) ==
    IF S = {} THEN {<<>>}
    ELSE UNION {{<<i>> \o rest : rest \in argsort(keys, S \ {i})} :
                    i \in {j \in S : \A k \in S : keys[j] <= keys[k]}}

\* DataFrame.take(indexer)
Take(rows, indexer) == [n \in 1..Len(indexer) |-> rows[indexer[n]]]

\* DataFrame.head(n)
head(rows, n) == SubSeq(rows, 1, Min(n, Len(rows)))

\* the number the "more" line shows; 0 when the line is not drawn
MoreThanShown(rows) ==
    IF Len(rows) > DisplayCount THEN Len(rows) - DisplayCount ELSE 0

\* (df_logs['status'] == 'Open') & (df_logs['days_open'] > 7)
IsOverdueFromSeven(row) == row.status = "Open" /\ row.days_open >= OverdueDays
IsOverdue(row) == row.status = "Open" /\ row.days_open > OverdueDays

\* .sort_values('days_open', ascending=False): the frames it may return
SortByDaysOpenDescending(rows) ==
    {Take(rows, ix) : ix \in argsort([i \in 1..Len(rows) |-> 0 - rows[i].days_open],
                                     1..Len(rows))}

\* df_logs[df_logs['status'] == 'On_Hold']
IsOnHold(row) == row.status = "On_Hold"

HasLastUpdated(row) == row.last_updated # NaT
LacksLastUpdated(row) == row.last_updated = NaT

\* .sort_values('last_updated'): ascending, NaT rows last in frame order
SortByLastUpdatedDescending(rows) ==
    LET present == SelectSeq(rows, HasLastUpdated)
        missing == SelectSeq(rows, LacksLastUpdated)
    IN  {Take(present, ix) \o missing :
            ix \in argsort([i \in 1..Len(present) |-> 0 - present[i].last_updated],
                           1..Len(present))}
SortByLastUpdated(rows) ==
    LET present == SelectSeq(rows, HasLastUpdated)
        missing == SelectSeq(rows, LacksLastUpdated)
    IN  {Take(present, ix) \o missing :
            ix \in argsort([i \in 1..Len(present) |-> present[i].last_updated],
                           1..Len(present))}

\* df_logs[df_logs['status'] == 'Solved']
IsSolved(row) == row.status = "Solved"

\* (solved_df['last_updated'] - solved_df['date_logged']).dt.days, NaN when
\* a date is NaT
HasResolutionDays(row) == row.last_updated # NaT /\ row.date_logged # NaT
resolution_days(row) == to_days(row.last_updated - row.date_logged)

\* (resolution_days >= 0) & (resolution_days <= 365): False of a NaN
InRangeNoOutlierCut(row) ==
    HasResolutionDays(row) /\ resolution_days(row) >= 0
InRange(row) ==
    /\ HasResolutionDays(row)
    /\ resolution_days(row) >= 0
    /\ resolution_days(row) <= MaxResolutionDays

RECURSIVE SumDays(_)
SumDays(rows) ==
    IF rows = <<>> THEN 0 ELSE resolution_days(Head(rows)) + SumDays(Tail(rows))

\* Series.mean(), kept as the quotient total / count
mean(rows) == [total |-> SumDays(rows), count |-> Len(rows)]

\* the literal 0 of lines 163 and 165
Zero == [total |-> 0, count |-> 1]

\* avg_resolution of lines 158-165
AvgResolution(df) ==
    LET solved_df == SelectSeq(df, IsSolved) IN
    IF solved_df # <<>>
    THEN LET kept == SelectSeq(solved_df, InRange) IN
         IF kept # <<>> THEN mean(kept) ELSE Zero
    ELSE Zero

\* the values of a column, and how many rows hold one of them
ColumnValues(rows, col) == {rows[n][col] : n \in 1..Len(rows)}
CountWhere(rows, col, v) == Cardinality({n \in 1..Len(rows) : rows[n][col] = v})

\* Series.value_counts(): dropna=True, missing values are not counted
value_counts(rows, col) ==
    {[key |-> v, count |-> CountWhere(rows, col, v)] :
        v \in ColumnValues(rows, col) \ {Null}}

\* df_logs['date_logged'] >= last_30_days: False of a NaT
InLast30(row) == row.date_logged # NaT /\ row.date_logged >= Today - Day(30)

\* (date_logged >= prev_30_days) & (date_logged < last_30_days)
InPrevious30UpToLast(row) ==
    /\ row.date_logged # NaT
    /\ row.date_logged >= Today - Day(60)
    /\ row.date_logged <= Today - Day(30)
InPrevious30(row) ==
    /\ row.date_logged # NaT
    /\ row.date_logged >= Today - Day(60)
    /\ row.date_logged < Today - Day(30)

\* trend = recent_calls - previous_calls (148-155)
Trend(df) == Len(SelectSeq(df, InLast30)) - Len(SelectSeq(df, InPrevious30))

\* last_60 = df_logs[df_logs['date_logged'] >= last_60_days]
InLast60(row) == row.date_logged # NaT /\ row.date_logged >= Today - Day(60)

\* last_60.groupby(last_60['date_logged'].dt.date).size(): one count for
\* every date of last_60; nothing is grouped when last_60 is empty
DailyCalls(df) ==
    LET last_60 == SelectSeq(df, InLast60) IN
    {[date |-> d,
      count |-> Cardinality({n \in 1..Len(last_60) :
                                to_days(last_60[n].date_logged) = d})] :
        d \in {to_days(last_60[n].date_logged) : n \in 1..Len(last_60)}}

\* pd.Grouper(key='date_logged', freq='W'): the week a timestamp falls in
WeekOf(t) == to_days(t) \div 7

\* last_60.groupby([Grouper, 'status']).size(): dropna=True, rows without a
\* status are in no group; nothing is grouped when last_60 is empty
StatusByWeek(df) ==
    LET last_60 == SelectSeq(df, InLast60) IN
    {[week |-> w, status |-> st,
      count |-> Cardinality({n \in 1..Len(last_60) :
                                /\ WeekOf(last_60[n].date_logged) = w
                                /\ last_60[n].status = st})] :
        <<w, st>> \in {<<WeekOf(last_60[n].date_logged), last_60[n].status>> :
                          n \in {m \in 1..Len(last_60) : last_60[m].status # Null}}}

\* groupby(col, dropna=False).agg({'call_id': 'count',
\* 'status': lambda x: (x == 'Solved').sum()}): a group for every value of
\* the column, the missing one too; 'count' counts the call_ids present
GroupStatsCountingTechnician(rows, col) ==
    {[key |-> v,
      total |-> Cardinality({n \in 1..Len(rows) :
                                rows[n][col] = v /\ rows[n].technician_name # Null}),
      solved |-> Cardinality({n \in 1..Len(rows) :
                                rows[n][col] = v /\ rows[n].status = "Solved"})] :
        v \in ColumnValues(rows, col)}
GroupStats(rows, col) ==
    {[key |-> v,
      total |-> Cardinality({n \in 1..Len(rows) :
                                rows[n][col] = v /\ rows[n].call_id # Null}),
      solved |-> Cardinality({n \in 1..Len(rows) :
                                rows[n][col] = v /\ rows[n].status = "Solved"})] :
        v \in ColumnValues(rows, col)}

RECURSIVE SeqOf(_)
\* the rows of the grouped frame
SeqOf(S) ==
    IF S = {} THEN <<>>
    ELSE LET x == CHOOSE y \in S : TRUE IN <<x>> \o SeqOf(S \ {x})

\* the number of groups a rollup keeps
TopCount == 10

\* customer_stats['Pending'] = customer_stats['Total Calls'] - customer_stats['Solved']
Pending(group) == group.total - group.solved

\* .sort_values('Total Calls', ascending=False): the frames it may return
SortByTotalAscending(groups) ==
    LET g == SeqOf(groups) IN
    {Take(g, ix) : ix \in argsort([i \in 1..Len(g) |-> g[i].total], 1..Len(g))}
SortByTotalDescending(groups) ==
    LET g == SeqOf(groups) IN
    {Take(g, ix) : ix \in argsort([i \in 1..Len(g) |-> 0 - g[i].total], 1..Len(g))}

\* tech_stats (336-342) and customer_stats (370-376): the frames a run may show
Rollups(df, col) ==
    {head(sorted, TopCount) : sorted \in SortByTotalDescending(GroupStats(df, col))}

\* the cache entry of load_all_service_logs
DashCacheHit == dash_cache.version = dashboard_version

\* df_logs = load_all_service_logs(st.session_state.dashboard_version)
DashLoaded(ok) ==
    IF DashCacheHit THEN dash_cache.data
    ELSE IF ok THEN Service_Log ELSE <<>>

DashCacheAfter(ok) ==
    IF DashCacheHit THEN dash_cache
    ELSE [version |-> dashboard_version, data |-> DashLoaded(ok)]

\* nothing is drawn below the point the script has reached
NothingDrawn ==
    /\ df_logs' = <<>>
    /\ overdue_calls' = <<>>
    /\ overdue_shown' = <<>>
    /\ overdue_more' = 0
    /\ on_hold_df' = <<>>
    /\ on_hold_shown' = <<>>
    /\ on_hold_more' = 0
    /\ avg_resolution' = Zero
    /\ trend' = 0
    /\ status_counts' = {}
    /\ daily_calls' = {}
    /\ status_by_week' = {}
    /\ call_type_dist' = {}
    /\ warranty_dist' = {}
    /\ tech_stats' = <<>>
    /\ customer_stats' = <<>>

\* One run of the script from the load (116-118) to the rollups (376).
DashboardRun(ok) ==
    /\ dash_pc = "run"
    /\ DashCacheHit => ok
    /\ dash_cache' = DashCacheAfter(ok)
    /\ IF DashLoaded(ok) = <<>>
       THEN \* st.warning, st.stop() (120-122)
            /\ NothingDrawn
            /\ dash_pc' = "stopped"
       ELSE LET df == Preprocess(DashLoaded(ok)) IN
            /\ df_logs' = df
            /\ status_counts' = value_counts(df, "status")
            /\ trend' = Trend(df)
            /\ avg_resolution' = AvgResolution(df)
            /\ \E sorted \in SortByDaysOpenDescending(SelectSeq(df, IsOverdue)) :
                 /\ overdue_calls' = sorted
                 /\ overdue_shown' = head(sorted, DisplayCount)
                 /\ overdue_more' = MoreThanShown(sorted)
            /\ \E sorted \in SortByLastUpdated(SelectSeq(df, IsOnHold)) :
                 /\ on_hold_df' = sorted
                 /\ on_hold_shown' = head(sorted, DisplayCount)
                 /\ on_hold_more' = MoreThanShown(sorted)
            /\ daily_calls' = DailyCalls(df)
            /\ status_by_week' = StatusByWeek(df)
            /\ call_type_dist' = value_counts(df, "call_type")
            /\ warranty_dist' = value_counts(df, "warranty_status")
            /\ tech_stats' \in Rollups(df, "technician_name")
            /\ customer_stats' \in Rollups(df, "customer_name")
            /\ dash_pc' = "done"
    /\ UNCHANGED dashboard_version
    /\ UNCHANGED <<fetchVars, formVars, menuVars, editVars>>

\* the "Refresh" button (109-112)
DashboardRefresh ==
    /\ dash_pc \in {"done", "stopped"}
    /\ dashboard_version < MaxVersion
    /\ dashboard_version' = BumpVersion(dashboard_version)
    /\ dash_cache' = NotCached
    /\ NothingDrawn
    /\ dash_pc' = "run"
    /\ UNCHANGED <<fetchVars, formVars, menuVars, editVars>>

\* any other widget event (a filter, a tab): the script runs again
DashboardRerun ==
    /\ dash_pc \in {"done", "stopped"}
    /\ NothingDrawn
    /\ dash_pc' = "run"
    /\ UNCHANGED <<dashboard_version, dash_cache>>
    /\ UNCHANGED <<fetchVars, formVars, menuVars, editVars>>

\* ttl=300: the cached table expires
DashCacheExpire ==
    /\ dash_cache # NotCached
    /\ dash_cache' = NotCached
    /\ UNCHANGED <<dashboard_version, df_logs, dash_pc, overdue_calls, overdue_shown,
                   overdue_more, on_hold_df, on_hold_shown, on_hold_more,
                   avg_resolution, trend, status_counts, daily_calls,
                   status_by_week, call_type_dist, warranty_dist, tech_stats,
                   customer_stats>>
    /\ UNCHANGED <<fetchVars, formVars, menuVars, editVars>>

\* tables of at most n rows drawn from a set of rows
Tables(rows, n) == UNION {[1..k -> rows] : k \in 0..n}

\* open calls around the overdue threshold
OverdueRows == {Row("Open", DaysAgo(n), DaysAgo(n)) : n \in {7, 8, 9}}

\* calls on hold, one without last_updated
OnHoldRows == {Row("On_Hold", DaysAgo(30), u) : u \in {DaysAgo(3), DaysAgo(2), NaT}}

\* calls of every status, dates off midnight or missing
MixedRows ==
    {Row("Open", DaysAgo(8) - 1, DaysAgo(1)),
     Row("Open", DaysAgo(7) - 1, DaysAgo(1)),
     Row("Open", DaysAgo(20), DaysAgo(1)),
     Row("Open", NaT, DaysAgo(1)),
     Row("On_Hold", DaysAgo(9), DaysAgo(4)),
     Row("On_Hold", DaysAgo(9), DaysAgo(4) + 1),
     Row("Solved", DaysAgo(9), DaysAgo(4)),
     \* equal sort keys in rows that differ
     Row("Open", DaysAgo(8), DaysAgo(1)),
     Row("On_Hold", DaysAgo(10), DaysAgo(4))}

\* solved calls around the limits of resolution_days
ResolutionRows ==
    {Row("Solved", Day(10), u) :
        u \in {Day(10) - 1, Day(10), Day(12), Day(10 + MaxResolutionDays) + 1,
               Day(11 + MaxResolutionDays), NaT}}
    \cup {Row("Solved", NaT, Day(12))}

\* days_open = [3, 8, 15, 2, 20, 9], every call Open
ExampleDaysOpen == <<3, 8, 15, 2, 20, 9>>
ExampleTable ==
    [i \in 1..Len(ExampleDaysOpen) |->
        Row("Open", DaysAgo(ExampleDaysOpen[i]), DaysAgo(ExampleDaysOpen[i]))]

\* calls of two technicians and of none; the customer goes with the technician
GroupRows ==
    {LogRow(st, DaysAgo(1), DaysAgo(1), t,
            IF t = "A" THEN "P" ELSE IF t = "B" THEN Null ELSE "Q",
            "Repair", "In Warranty") :
        st \in {"Solved", "Open"}, t \in {"A", "B", Null}}

\* calls with and without a status, a call type and a warranty status
CategoryRows ==
    {LogRow(st, DaysAgo(1), DaysAgo(1), "A", "P", type, warranty) :
        st \in {"Open", Null}, type \in {"Repair", Null},
        warranty \in {"In Warranty", Null}}

\* calls logged around the ends of the two 30-day windows
TrendRows ==
    {LogRow("Waiting for Parts", d, DaysAgo(1), "A", "P", "Repair", "In Warranty") :
        d \in {Today, DaysAgo(30), DaysAgo(30) - 1, DaysAgo(60), DaysAgo(60) - 1, NaT}}

\* more technicians than a rollup keeps: technician n has totals[n] calls,
\* the first of them solved
Technicians == <<"T1", "T2", "T3", "T4", "T5", "T6", "T7", "T8", "T9", "T10", "T11">>
RECURSIVE CallsOf(_, _)
CallsOf(totals, n) ==
    IF n = 0 THEN <<>>
    ELSE CallsOf(totals, n - 1)
         \o [k \in 1..totals[n] |->
                LogRow(IF k = 1 THEN "Solved" ELSE "Waiting for Parts", Today, Today,
                       Technicians[n], "P", "Repair", "In Warranty")]
ManyTechnicians ==
    {CallsOf(totals, Len(Technicians)) :
        totals \in {[n \in 1..Len(Technicians) |-> n],
                    [n \in 1..Len(Technicians) |-> Len(Technicians) + 1 - n],
                    [n \in 1..Len(Technicians) |-> IF n = 4 THEN 1 ELSE n]}}

DashTables ==
    Tables(OverdueRows, MaxDashRows) \cup Tables(OnHoldRows, MaxDashRows)
    \cup Tables(MixedRows, MaxMixedRows) \cup Tables(ResolutionRows, MaxSolvedRows)
    \cup Tables(GroupRows, MaxGroupRows) \cup Tables(CategoryRows, MaxMixedRows)
    \cup Tables(TrendRows, MaxGroupRows) \cup ManyTechnicians
    \cup {ExampleTable}

InitDashboard ==
    /\ Service_Log \in DashTables
    /\ dashboard_version = 0
    /\ dash_cache = NotCached
    /\ df_logs = <<>>
    /\ dash_pc = "run"
    /\ overdue_calls = <<>>
    /\ overdue_shown = <<>>
    /\ overdue_more = 0
    /\ on_hold_df = <<>>
    /\ on_hold_shown = <<>>
    /\ on_hold_more = 0
    /\ avg_resolution = Zero
    /\ trend = 0
    /\ status_counts = {}
    /\ daily_calls = {}
    /\ status_by_week = {}
    /\ call_type_dist = {}
    /\ warranty_dist = {}
    /\ tech_stats = <<>>
    /\ customer_stats = <<>>

\* the dashboard is not running
DashIdle ==
    /\ dashboard_version = 0
    /\ dash_cache = NotCached
    /\ df_logs = <<>>
    /\ dash_pc = "stopped"
    /\ overdue_calls = <<>>
    /\ overdue_shown = <<>>
    /\ overdue_more = 0
    /\ on_hold_df = <<>>
    /\ on_hold_shown = <<>>
    /\ on_hold_more = 0
    /\ avg_resolution = Zero
    /\ trend = 0
    /\ status_counts = {}
    /\ daily_calls = {}
    /\ status_by_week = {}
    /\ call_type_dist = {}
    /\ warranty_dist = {}
    /\ tech_stats = <<>>
    /\ customer_stats = <<>>

NextDashboard ==
    \/ \E ok \in BOOLEAN : DashboardRun(ok)
    \/ DashboardRefresh
    \/ DashboardRerun
    \/ DashCacheExpire

(***************************************************************************)
(* update_log.py: the service log manager.  interactive_menu is modelled   *)
(* from its first prompt; one action is one pass of the while loop.  A     *)
(* request to the backend either returns or raises (ok).                   *)
(***************************************************************************)
\* a row of Service_Log as the manager reads and writes it
MenuRow(id, technician, customer, status) ==
    [id |-> id, call_id |-> id, technician_name |-> technician,
     customer_name |-> customer, status |-> status, remarks |-> Null]

\* the tables the manager is started on
MenuTables ==
    {<<>>, <<MenuRow(1, "B", "P", "Open"), MenuRow(2, "A", "Q", "Open")>>}

\* what the user types at the prompts
EngineerInputs == {"A", "Z"}
SortFieldInputs == {"technician_name", "customer_name", "priority"}
Numerals == <<"1", "2", "3">>
EntryIdInputs == {"1", "2", "3", "abc"}
KeyInputs == {"status", "remarks", "customer_name"}
ValueInputs == {"X"}

\* int(entry_id): the number a numeral stands for; ValueError otherwise
IsNumeral(text) == \E n \in 1..Len(Numerals) : Numerals[n] = text
int(text) == CHOOSE n \in 1..Len(Numerals) : Numerals[n] = text

\* the fields sort_logs accepts (71)
SortableFields == {"technician_name", "date_logged", "customer_name", "instrument_name"}

\* update(updated_data).eq("id", entry_id): the rows after the request
UpdateById(tbl, entry_id, key, value) ==
    [i \in 1..Len(tbl) |->
        IF tbl[i].id = entry_id THEN [tbl[i] EXCEPT ![key] = value] ELSE tbl[i]]

\* the order of the texts that occur in the columns, as str compares them
Letters == <<"A", "B", "P", "Q", "X", "Z">>
TextOrder(text) == CHOOSE n \in 1..Len(Letters) : Letters[n] = text

\* logs.sort_values(by=by_field) (75): the frames an ascending sort may give
sort_values(rows, by) ==
    {Take(rows, indexer) :
        indexer \in argsort([n \in 1..Len(rows) |-> TextOrder(rows[n][by])],
                            1..Len(rows))}

\* .eq("technician_name", engineer_name) (56)
filter_by_engineer(tbl, engineer_name) ==
    SelectSeq(tbl, LAMBDA row : row.technician_name = engineer_name)

MenuContinues(printed) ==
    menu_pc' = "menu" /\ menu_output' = printed /\ menu_frame' = <<>>
MenuPrints(frame) ==
    menu_pc' = "menu" /\ menu_output' = "frame" /\ menu_frame' = frame
MenuRaises(exception) ==
    menu_pc' = "raised" /\ menu_output' = exception /\ menu_frame' = <<>>
\* what was typed at the prompts, and whether a request went out
MenuTyped(option, field, sent) ==
    /\ menu_choice' = [option |-> option, field |-> field]
    /\ menu_requested' = sent

\* option 1 (90-92): get_all_logs().  When a range request raises, the
\* except clause of load_paginated_data calls st.error, a name the module
\* never defines (37-39).
MenuViewAll(ok) ==
    /\ menu_pc = "menu"
    /\ MenuTyped("1", "none", TRUE)
    /\ IF ok THEN MenuPrints(Service_Log) ELSE MenuRaises("NameError")
    /\ UNCHANGED formVars
    /\ UNCHANGED <<fetchVars, dashVars, editVars>>

\* option 2 (94-98): filter_by_engineer has no try block (55-57)
MenuFilter(name, ok) ==
    /\ menu_pc = "menu"
    /\ MenuTyped("2", "none", TRUE)
    /\ IF ok THEN MenuPrints(filter_by_engineer(Service_Log, name))
       ELSE MenuRaises("APIError")
    /\ UNCHANGED formVars
    /\ UNCHANGED <<fetchVars, dashVars, editVars>>

\* option 3 (100-106): only the ValueError of sort_logs is caught; a frame
\* without rows has no column to sort by (75)
MenuSort(field, ok) ==
    /\ menu_pc = "menu"
    /\ field \notin SortableFields => ok
    /\ MenuTyped("3", field, field \in SortableFields)
    /\ IF field \notin SortableFields THEN MenuContinues("Unsupported sort field")
       ELSE IF ~ok THEN MenuRaises("NameError")
       ELSE IF Service_Log = <<>> THEN MenuRaises("KeyError")
       ELSE \E sorted \in sort_values(Service_Log, field) : MenuPrints(sorted)
    /\ UNCHANGED formVars
    /\ UNCHANGED <<fetchVars, dashVars, editVars>>

\* option 4 (108-114): int(entry_id) is outside any try block; the update
\* request writes the field the user named into the rows with that id, and
\* its exception is returned as text (61-66)
MenuUpdate(entry_id, key, value, ok) ==
    /\ menu_pc = "menu"
    /\ ~IsNumeral(entry_id) => ok
    /\ MenuTyped("4", "none", IsNumeral(entry_id))
    /\ IF ~IsNumeral(entry_id)
       THEN MenuRaises("ValueError") /\ UNCHANGED Service_Log
       ELSE IF ok
       THEN /\ Service_Log' = UpdateById(Service_Log, int(entry_id), key, value)
            /\ MenuContinues("Update Result")
       ELSE MenuContinues("Update Result") /\ UNCHANGED Service_Log
    /\ UNCHANGED <<app, sessionVars, Service_Log_Pending, Instruments, cache, errors,
                   missing_fields, failed_request, run_pc, uncaught>>
    /\ UNCHANGED <<fetchVars, dashVars, editVars>>

\* option 5 (116-118)
MenuExit ==
    /\ menu_pc = "menu"
    /\ menu_pc' = "exited"
    /\ menu_output' = "Exiting"
    /\ menu_frame' = <<>>
    /\ MenuTyped("5", "none", FALSE)
    /\ UNCHANGED formVars
    /\ UNCHANGED <<fetchVars, dashVars, editVars>>

\* any other input (120-121)
MenuInvalid ==
    /\ menu_pc = "menu"
    /\ MenuContinues("Invalid Option!")
    /\ MenuTyped("other", "none", FALSE)
    /\ UNCHANGED formVars
    /\ UNCHANGED <<fetchVars, dashVars, editVars>>

InitMenu ==
    /\ menu_pc = "menu"
    /\ menu_output = "none"
    /\ menu_frame = <<>>
    /\ menu_choice = [option |-> "none", field |-> "none"]
    /\ menu_requested = FALSE
    /\ Service_Log \in MenuTables

\* the manager is not running
MenuIdle ==
    /\ menu_pc = "exited"
    /\ menu_output = "none"
    /\ menu_frame = <<>>
    /\ menu_choice = [option |-> "none", field |-> "none"]
    /\ menu_requested = FALSE

NextMenu ==
    \/ \E ok \in BOOLEAN : MenuViewAll(ok)
    \/ \E name \in EngineerInputs, ok \in BOOLEAN : MenuFilter(name, ok)
    \/ \E field \in SortFieldInputs, ok \in BOOLEAN : MenuSort(field, ok)
    \/ \E entry_id \in EntryIdInputs, key \in KeyInputs, value \in ValueInputs,
          ok \in BOOLEAN : MenuUpdate(entry_id, key, value, ok)
    \/ MenuExit
    \/ MenuInvalid


(***************************************************************************)
(* mobile_service_log.py, update screen: two sessions with the same call   *)
(* selected.  A session's run reads the call from its cached df_logs; the  *)
(* widgets of update_call_form take their initial values from that row.    *)
(***************************************************************************)
Sessions == {"s1", "s2"}

\* largest number of widgets a user changes in one form
MaxEdits == 1

\* the widgets of update_call_form (643-667) and the fields Save writes (684-690)
FormFields == {"date_visited", "technician_name", "action_taken", "spare_parts",
               "status", "remarks"}
UpdatedFields == FormFields \cup {"last_updated"}

TextFields == {"technician_name", "action_taken", "spare_parts", "remarks"}

\* date.today()
TodayDate == "2024-03-01"

\* None in a column of texts, and str(None)
NoText == <<Null>>
NoneText == <<"N", "o", "n", "e">>

\* a call nobody has worked on, and one with every field filled
FreshCall ==
    [call_id |-> "c1", date_visited |-> Null, technician_name |-> <<"A">>,
     action_taken |-> NoText, spare_parts |-> NoText, status |-> "Open",
     remarks |-> NoText, last_updated |-> 0]
VisitedCall ==
    [call_id |-> "c1", date_visited |-> "2024-01-01", technician_name |-> <<"A">>,
     action_taken |-> <<"o", "l", "d">>, spare_parts |-> <<"f", "u", "s", "e">>,
     status |-> "On_Hold", remarks |-> <<"r", "0">>, last_updated |-> 0]

\* the initial value of a widget for a value of the row (643-667):
\* parse_date_safely(...) or date.today(); str(call.get(...)); the index of
\* the status among the options, or 0
Prefill(field, v) ==
    CASE field = "date_visited" -> IF v = Null THEN TodayDate ELSE v
      [] field = "status" -> IF v \in Statuses THEN v ELSE "Open"
      [] field \in TextFields -> IF v = NoText THEN NoneText ELSE v

\* the value Save sends for a widget (684-689)
Sent(field, w) ==
    CASE field \in {"date_visited", "status"} -> w
      [] field \in {"technician_name", "action_taken"} -> Strip(w)
      [] OTHER -> IF w = Empty THEN NoText ELSE Strip(w)

\* what a user may put into a widget
EditInputs(s, field) ==
    CASE field = "date_visited" -> {IF s = "s1" THEN "2024-02-01" ELSE "2024-02-02"}
      [] field = "technician_name" -> {IF s = "s1" THEN <<"T", "1">> ELSE <<"T", "2">>}
      [] field = "action_taken" ->
            IF s = "s1" THEN {<<"f", "i", "x", " ">>} ELSE {<<"s", "w", "a", "p">>, Blank}
      [] field = "spare_parts" -> IF s = "s1" THEN {<<"p", "1">>} ELSE {Empty}
      [] field = "status" -> {IF s = "s1" THEN "Solved" ELSE "Waiting for Parts"}
      [] OTHER -> {IF s = "s1" THEN <<"r", "1", " ">> ELSE <<"r", "2">>}

\* the widgets as a run draws them for a row
FormFor(row) == [f \in FormFields |-> Prefill(f, row[f])]

\* A run of the script with the form on screen, for a row read from df_logs:
\* a widget whose initial value is no longer the one it was created with is
\* a new widget and shows the new initial value; the others keep their value.
Redrawn(s, row) ==
    [f \in FormFields |->
        IF Prefill(f, row[f]) = Prefill(f, call[s][f]) THEN widgets[s][f]
        ELSE Prefill(f, row[f])]
StillEdited(s, row) ==
    {f \in edited[s] : Prefill(f, row[f]) = Prefill(f, call[s][f])}

\* update_data (683-691)
update_data(form, time) ==
    [f \in UpdatedFields |-> IF f = "last_updated" THEN time ELSE Sent(f, form[f])]

\* the fields of the row the update request sets
SetByUpdateOnlyEdited(s) == edited[s] \cup {"last_updated"}
SetByUpdate(s) == UpdatedFields

\* .update(update_data).eq("call_id", ...): the row after the request
Updated(row, data, fields) ==
    [f \in DOMAIN row |-> IF f \in fields THEN data[f] ELSE row[f]]

NoRow == Null
NoForm == Null

\* the "Update" button of the call in the list (184-186), which shows the
\* rows of unsolved_df (616) only, and the run that follows: df_logs is
\* loaded and the form is drawn
OpenForm(s) ==
    /\ editor_pc[s] = "list"
    /\ live_call.status \in Unsolved
    /\ editor_pc' = [editor_pc EXCEPT ![s] = "form"]
    /\ call' = [call EXCEPT ![s] = live_call]
    /\ widgets' = [widgets EXCEPT ![s] = FormFor(live_call)]
    /\ edited' = [edited EXCEPT ![s] = {}]
    /\ UNCHANGED <<live_call, write_order, now>>
    /\ UNCHANGED <<fetchVars, formVars, dashVars, menuVars>>

\* the user changes a widget of the form; inside st.form no run follows
EditWidget(s, field, v) ==
    /\ editor_pc[s] = "form"
    /\ v \in EditInputs(s, field)
    /\ v # widgets[s][field]
    /\ Cardinality(edited[s] \cup {field}) <= MaxEdits
    /\ widgets' = [widgets EXCEPT ![s][field] = v]
    /\ edited' = [edited EXCEPT ![s] = edited[s] \cup {field}]
    /\ UNCHANGED <<live_call, call, editor_pc, write_order, now>>
    /\ UNCHANGED <<fetchVars, formVars, dashVars, menuVars>>

\* "Save" (679-705).  The run reads df_logs from the cache, or from the
\* table when the entry has expired or was cleared (fresh); the request
\* returns or raises (ok); datetime.now() has or has not moved on (tick).
SaveForm(s, fresh, ok, tick) ==
    /\ editor_pc[s] = "form"
    /\ LET row == IF fresh THEN live_call ELSE call[s]
           form == Redrawn(s, row)
           rejected == Strip(form["action_taken"]) = Empty
           time == now + tick
       IN  /\ call' = [call EXCEPT ![s] = row]
           /\ widgets' = [widgets EXCEPT ![s] = form]
           /\ edited' = [edited EXCEPT ![s] = StillEdited(s, row)]
           \* the request and the clock are read only when the update is made
           /\ rejected => (ok /\ tick = 0)
           /\ ~ok => tick = 0
           /\ IF ~rejected /\ ok
              THEN /\ live_call' = Updated(live_call, update_data(form, time),
                                           SetByUpdate(s))
                   /\ now' = time
                   /\ write_order' = Append(write_order, s)
                   /\ editor_pc' = [editor_pc EXCEPT ![s] = "saved"]
              ELSE \* "Work description required", or st.error of the exception
                   UNCHANGED <<live_call, now, write_order, editor_pc>>
    /\ UNCHANGED <<fetchVars, formVars, dashVars, menuVars>>

\* "Cancel" (707-709)
CancelForm(s) ==
    /\ editor_pc[s] = "form"
    /\ editor_pc' = [editor_pc EXCEPT ![s] = "list"]
    /\ call' = [call EXCEPT ![s] = NoRow]
    /\ widgets' = [widgets EXCEPT ![s] = NoForm]
    /\ edited' = [edited EXCEPT ![s] = {}]
    /\ UNCHANGED <<live_call, write_order, now>>
    /\ UNCHANGED <<fetchVars, formVars, dashVars, menuVars>>

InitEditors ==
    /\ live_call \in {FreshCall, VisitedCall}
    /\ call = [s \in Sessions |-> NoRow]
    /\ widgets = [s \in Sessions |-> NoForm]
    /\ edited = [s \in Sessions |-> {}]
    /\ editor_pc = [s \in Sessions |-> "list"]
    /\ write_order = <<>>
    /\ now = 1

\* no session has the update screen open
EditorsIdle ==
    /\ live_call = FreshCall
    /\ call = [s \in Sessions |-> NoRow]
    /\ widgets = [s \in Sessions |-> NoForm]
    /\ edited = [s \in Sessions |-> {}]
    /\ editor_pc = [s \in Sessions |-> "list"]
    /\ write_order = <<>>
    /\ now = 1

NextEditors ==
    \/ \E s \in Sessions : OpenForm(s)
    \/ \E s \in Sessions, field \in FormFields :
          \E v \in EditInputs(s, field) : EditWidget(s, field, v)
    \/ \E s \in Sessions, fresh \in BOOLEAN, ok \in BOOLEAN, tick \in {0, 1} :
          SaveForm(s, fresh, ok, tick)
    \/ \E s \in Sessions : CancelForm(s)


(***************************************************************************)
(* Specifications                                                          *)
(***************************************************************************)
\* each program runs on its own
FetchAlone == InitFetch /\ FormsIdle /\ DashIdle /\ MenuIdle /\ EditorsIdle
FormsAlone == InitForms /\ FetchIdle /\ DashIdle /\ MenuIdle /\ EditorsIdle
DashboardAlone == InitDashboard /\ FetchIdle /\ FormsQuiet /\ MenuIdle /\ EditorsIdle
MenuAlone == InitMenu /\ FetchIdle /\ FormsQuiet /\ DashIdle /\ EditorsIdle
EditorsAlone == InitEditors /\ FetchIdle /\ FormsIdle /\ DashIdle /\ MenuIdle

SpecFetch == FetchAlone /\ [][NextFetch]_vars

\* the loaders against a table that grows while they run
NextFetchLive ==
    \/ NextFetch
    \/ AppendRow

SpecFetchLive == FetchAlone /\ [][NextFetchLive]_vars

SpecForms == FormsAlone /\ [][NextForms]_vars

SpecDashboard == DashboardAlone /\ [][NextDashboard]_vars

SpecMenu == MenuAlone /\ [][NextMenu]_vars

SpecEditors == EditorsAlone /\ [][NextEditors]_vars

(***************************************************************************)
(* Properties of the paginated loaders                                     *)
(***************************************************************************)
FetchSucceeded == fetch_pc = "done" /\ ~fetch_failed

\* C1: for every table size and a static table that never fails, each
\* loader returns exactly the rows of the table, each once, in index order.
C1_FetchReturnsTable ==
    FetchSucceeded => fetch_result = table_rows

\* a loader without the early break has returned a table of several pages
C1_Witness ==
    /\ FetchSucceeded
    /\ loader = Backup2Loader
    /\ Len(table_rows) > page_size
    /\ fetch_result = table_rows

\* C2: in every loader, no further range request is issued after a page
\* shorter than page_size (empty or not) has been received.
C2_StopsAtShortPage ==
    \A i \in 1..Len(requests) :
        requests[i].got < page_size => i = Len(requests)

\* C3: a fetch of n rows issues ceil(n/p) requests when n is not a multiple
\* of p and ceil(n/p)+1 when it is; in the exact-multiple case the additional
\* request returns zero rows and the result still has n rows.
C3_RequestCount ==
    FetchSucceeded =>
        LET n == Len(table_rows) IN
        IF n % page_size = 0
        THEN /\ Len(requests) = CeilDiv(n, page_size) + 1
             /\ requests[Len(requests)].got = 0
             /\ Len(fetch_result) = n
        ELSE Len(requests) = CeilDiv(n, page_size)

\* C4: if any range request fails, every loader stops without a further
\* request and returns an empty table, never the rows accumulated so far.
C4_FailureYieldsEmpty ==
    fetch_failed =>
        /\ fetch_pc = "done"
        /\ fetch_result = <<>>

(***************************************************************************)
(* Properties of the new-log forms                                         *)
(***************************************************************************)
\* C5: a submission of a new-log form (either version) that leaves a
\* required field out, empty or at its placeholder, reports every field left
\* out, writes to no table and leaves form_submitted False.
C5_MissingFieldRejected ==
    [][missing_fields' # {} =>
          /\ missing_fields' \subseteq {errors'[n] : n \in 1..Len(errors')}
          /\ Service_Log' = Service_Log
          /\ Service_Log_Pending' = Service_Log_Pending
          /\ Instruments' = Instruments
          /\ form_submitted' = FALSE]_vars

\* a submission that left all four fields out has been rejected
C5_Witness ==
    /\ Cardinality(missing_fields) = 4
    /\ Len(errors) = 4
    /\ ~form_submitted
    /\ Service_Log_Pending = <<>>

\* C6: a step that takes place on the new-log screen, a submission
\* among them, leaves the live table Service_Log as it is; a submission that
\* writes appends one row to Service_Log_Pending and nothing else.
C6_SubmissionKeepsLiveTable ==
    [][/\ mobile_mode = "new_log" => Service_Log' = Service_Log
       /\ Service_Log_Pending' # Service_Log_Pending =>
            /\ Service_Log' = Service_Log
            /\ Len(Service_Log_Pending') = Len(Service_Log_Pending) + 1
            /\ SubSeq(Service_Log_Pending', 1, Len(Service_Log_Pending))
                 = Service_Log_Pending]_vars

\* a log has been submitted and staged next to a live table with calls
C6_Witness ==
    /\ form_submitted
    /\ Len(Service_Log_Pending) = 1
    /\ Service_Log # <<>>

\* a step of the mobile session that writes a table
PendingInserted == Service_Log_Pending' # Service_Log_Pending
CallUpdated == (update_success' /\ ~update_success) \/ Service_Log' # Service_Log
Refreshed == \E ok \in BOOLEAN : ClickRefreshData(ok)

\* C7 as stated: every refresh and every successful write of the mobile
\* session, the insert of a pending log included, adds one to mobile_version
\* and empties the cache.
C7_EveryWriteBumpsVersion ==
    [][(app = MobileApp /\ (Refreshed \/ CallUpdated \/ PendingInserted)) =>
          (mobile_version' = mobile_version + 1 /\ cache' = EmptyCache)]_vars

\* C7 (amended): every refresh and every successful update of a live call
\* adds one to mobile_version and empties the cache, so that no cached
\* table answers the next load; the insert of a pending log leaves
\* mobile_version as it is and drops no cached table; mobile_version never
\* decreases, and it never rises without the cache being emptied.
C7_RefreshAndUpdateBumpVersion ==
    [][/\ (Refreshed \/ CallUpdated) =>
            /\ mobile_version' = mobile_version + 1
            /\ cache' = EmptyCache
            /\ \A key \in CacheKeys : cache'[key].version # mobile_version'
       /\ PendingInserted =>
            /\ mobile_version' = mobile_version
            /\ \A key \in CacheKeys : cache[key] # NotCached => cache'[key] = cache[key]
       /\ mobile_version' >= mobile_version
       /\ mobile_version' # mobile_version => cache' = EmptyCache]_vars

\* the session has staged a log and then saved an update of a live call
C7_Witness ==
    /\ app = MobileApp
    /\ mobile_version = MaxVersion
    /\ update_success
    /\ Len(Service_Log_Pending) = 1

(***************************************************************************)
(* Properties of the dashboard                                             *)
(***************************************************************************)
\* how many rows of a frame equal a row
Count(rows, row) == Cardinality({n \in 1..Len(rows) : rows[n] = row})

RowsOf(rows) == {rows[n] : n \in 1..Len(rows)}

\* a frame holds exactly the rows of df_logs that a condition selects
Selects(frame, Wanted(_)) ==
    \A row \in RowsOf(df_logs) \cup RowsOf(frame) :
        Count(frame, row) = IF Wanted(row) THEN Count(df_logs, row) ELSE 0

\* the cards are the first five rows, the counter what is left over
FirstFiveOf(shown, more, frame) ==
    /\ Len(shown) = Min(5, Len(frame))
    /\ \A n \in 1..Len(shown) : shown[n] = frame[n]
    /\ more = Max(0, Len(frame) - 5)

OpenOverSevenDays(row) == row.status = "Open" /\ row.days_open > 7

\* C8: the overdue list holds exactly the calls with status Open and
\* days_open > 7, by days_open descending; the first 5 at most are shown and
\* the counter is max(0, overdue calls - 5).  For days_open
\* [3, 8, 15, 2, 20, 9], all Open, [20, 15, 9, 8] is shown and the counter is 0.
C8_OverdueList ==
    dash_pc = "done" =>
        /\ Selects(overdue_calls, OpenOverSevenDays)
        /\ \A m, n \in 1..Len(overdue_calls) :
              m < n => overdue_calls[m].days_open >= overdue_calls[n].days_open
        /\ FirstFiveOf(overdue_shown, overdue_more, overdue_calls)
        /\ ([n \in 1..Len(df_logs) |-> df_logs[n].days_open] = <<3, 8, 15, 2, 20, 9>>
            /\ \A n \in 1..Len(df_logs) : df_logs[n].status = "Open")
           => /\ [n \in 1..Len(overdue_shown) |-> overdue_shown[n].days_open]
                    = <<20, 15, 9, 8>>
              /\ overdue_more = 0

\* six overdue calls that the table lists in another order: one is left over
C8_Witness ==
    /\ dash_pc = "done"
    /\ Len(overdue_calls) = 6
    /\ Len(overdue_shown) = 5
    /\ overdue_more = 1
    /\ df_logs[1].days_open < df_logs[6].days_open
    /\ overdue_calls[1].days_open > overdue_calls[6].days_open

IsOnHoldCall(row) == row.status = "On_Hold"

\* C9: the on-hold list holds exactly the calls with status On_Hold, by
\* last_updated ascending, the call updated earliest first; the first 5 at
\* most are shown and the counter is max(0, on-hold calls - 5).
C9_OnHoldList ==
    dash_pc = "done" =>
        /\ Selects(on_hold_df, IsOnHoldCall)
        /\ \A m, n \in 1..Len(on_hold_df) :
              (m < n /\ on_hold_df[m].last_updated # NaT
                     /\ on_hold_df[n].last_updated # NaT)
                 => on_hold_df[m].last_updated <= on_hold_df[n].last_updated
        /\ \A n \in 1..Len(on_hold_df) :
              on_hold_df[n].last_updated # NaT =>
                 /\ on_hold_df[1].last_updated # NaT
                 /\ on_hold_df[1].last_updated <= on_hold_df[n].last_updated
        /\ FirstFiveOf(on_hold_shown, on_hold_more, on_hold_df)

\* six calls on hold, the table listing a later one first: one is left over
C9_Witness ==
    /\ dash_pc = "done"
    /\ Len(on_hold_df) = 6
    /\ Len(on_hold_shown) = 5
    /\ on_hold_more = 1
    /\ df_logs[1].last_updated # NaT
    /\ on_hold_df[1].last_updated # NaT
    /\ on_hold_df[1].last_updated < df_logs[1].last_updated

\* the whole days from one timestamp to another
WholeDays(from, to) ==
    CHOOSE d \in (0 - 2)..367 : Day(d) <= to - from /\ to - from < Day(d + 1)

\* the positions of df_logs that count for the average
Eligible ==
    {n \in 1..Len(df_logs) :
        /\ df_logs[n].status = "Solved"
        /\ df_logs[n].date_logged # NaT
        /\ df_logs[n].last_updated # NaT
        /\ WholeDays(df_logs[n].date_logged, df_logs[n].last_updated) >= 0
        /\ WholeDays(df_logs[n].date_logged, df_logs[n].last_updated) <= 365}

RECURSIVE TotalDays(_)
TotalDays(S) ==
    IF S = {} THEN 0
    ELSE LET n == CHOOSE m \in S : TRUE IN
         WholeDays(df_logs[n].date_logged, df_logs[n].last_updated)
            + TotalDays(S \ {n})

\* C10: the average resolution time is the mean of the whole days from
\* date_logged to last_updated over exactly the Solved calls for which that is
\* between 0 and 365; calls with a negative or larger value or a missing
\* date do not count, and without such a call the average is 0.
C10_AverageResolution ==
    dash_pc = "done" =>
        /\ avg_resolution.count > 0
        /\ IF Eligible = {} THEN avg_resolution.total = 0
           ELSE avg_resolution.total * Cardinality(Eligible)
                    = TotalDays(Eligible) * avg_resolution.count

\* two solved calls count, a third one is left out
C10_Witness ==
    /\ dash_pc = "done"
    /\ Cardinality(Eligible) = 2
    /\ avg_resolution.total > 0
    /\ Cardinality({n \in 1..Len(df_logs) : df_logs[n].status = "Solved"}) = 3


\* the calls of df_logs with value v in a column, and the solved ones of them
CallsWith(col, v) == {n \in 1..Len(df_logs) : df_logs[n][col] = v}
SolvedWith(col, v) == {n \in CallsWith(col, v) : df_logs[n].status = "Solved"}

\* stats is the rollup of df_logs by a column
IsRollupBy(stats, col) ==
    LET groups == {df_logs[n][col] : n \in 1..Len(df_logs)}
        kept == {stats[i].key : i \in 1..Len(stats)}
    IN  /\ kept \subseteq groups
        /\ \A i, j \in 1..Len(stats) : stats[i].key = stats[j].key => i = j
        /\ \A i \in 1..Len(stats) :
              /\ stats[i].total = Cardinality(CallsWith(col, stats[i].key))
              /\ stats[i].solved = Cardinality(SolvedWith(col, stats[i].key))
        /\ \A i \in 1..Len(stats) - 1 : stats[i].total >= stats[i + 1].total
        /\ Len(stats) = IF Cardinality(groups) < 10 THEN Cardinality(groups) ELSE 10
        /\ \A v \in groups \ kept : \A i \in 1..Len(stats) :
              Cardinality(CallsWith(col, v)) <= stats[i].total

\* df_logs holds the calls (A, Solved), (A, Open), (B, Solved) and no other
IsRollupExample ==
    /\ Len(df_logs) = 3
    /\ Cardinality(CallsWith("technician_name", "A")) = 2
    /\ Cardinality(SolvedWith("technician_name", "A")) = 1
    /\ \E n \in CallsWith("technician_name", "A") : df_logs[n].status = "Open"
    /\ Cardinality(SolvedWith("technician_name", "B")) = 1

\* C11: in each rollup (by technician, by customer) the total of a group is
\* the number of its calls and its solved count the number of its Solved
\* calls; the groups are in descending order of total and the first 10 are
\* kept, so no group left out has a larger total than a kept one.  The calls
\* (A, Solved), (A, Open), (B, Solved) give A: 2 and 1, then B: 1 and 1.
C11_Rollups ==
    dash_pc = "done" =>
        /\ IsRollupBy(tech_stats, "technician_name")
        /\ IsRollupBy(customer_stats, "customer_name")
        /\ IsRollupExample =>
              tech_stats = <<[key |-> "A", total |-> 2, solved |-> 1],
                             [key |-> "B", total |-> 1, solved |-> 1]>>

\* eleven technicians, ten kept, and the one left out tied with a kept one
C11_Witness ==
    /\ dash_pc = "done"
    /\ Cardinality({df_logs[n].technician_name : n \in 1..Len(df_logs)}) = 11
    /\ Len(tech_stats) = 10
    /\ tech_stats[1].total > tech_stats[10].total
    /\ tech_stats[10].key = "T4"

\* the example of the rollup is drawn
C11_ExampleDrawn == dash_pc = "done" /\ IsRollupExample

RECURSIVE SumOfCounts(_)
\* the sum of the counts of a view
SumOfCounts(view) ==
    IF view = {} THEN 0
    ELSE LET g == CHOOSE h \in view : TRUE IN g.count + SumOfCounts(view \ {g})

RECURSIVE SumOfTotals(_)
\* the sum of the totals of a rollup
SumOfTotals(stats) ==
    IF stats = <<>> THEN 0 ELSE Head(stats).total + SumOfTotals(Tail(stats))

\* C12: every grouping view (status counts, weekly status counts, call-type
\* and warranty distributions, rollups) has a group for the records whose
\* category is missing, so the counts of a view add up to the number of
\* records it was given.
C12_CountsCoverEveryRecord ==
    dash_pc = "done" =>
        /\ SumOfCounts(status_counts) = Len(df_logs)
        /\ SumOfCounts(status_by_week) = Len(SelectSeq(df_logs, InLast60))
        /\ SumOfCounts(call_type_dist) = Len(df_logs)
        /\ SumOfCounts(warranty_dist) = Len(df_logs)
        /\ Len(tech_stats) < TopCount => SumOfTotals(tech_stats) = Len(df_logs)
        /\ Len(customer_stats) < TopCount => SumOfTotals(customer_stats) = Len(df_logs)

\* the calls of df_logs logged from one instant up to, and not at, another
LoggedWithin(from, to) ==
    {n \in 1..Len(df_logs) :
        /\ df_logs[n].date_logged # NaT
        /\ from <= df_logs[n].date_logged
        /\ df_logs[n].date_logged < to}

\* C17: the trend is the number of calls logged in the last 30 days minus
\* the number logged in the 30 days before; the windows start 30 and 60 days
\* before today, no call is in both, and a call without a date_logged is in
\* neither.
C17_Trend ==
    dash_pc = "done" =>
        LET recent == {n \in 1..Len(df_logs) :
                          /\ df_logs[n].date_logged # NaT
                          /\ df_logs[n].date_logged >= Today - Day(30)}
            previous == LoggedWithin(Today - Day(60), Today - Day(30))
        IN  /\ trend = Cardinality(recent) - Cardinality(previous)
            /\ recent \cap previous = {}
            /\ \A n \in 1..Len(df_logs) :
                  df_logs[n].date_logged = NaT => n \notin recent \cup previous

\* a call logged exactly 30 days ago, one just before and one without a date
C17_Witness ==
    /\ dash_pc = "done"
    /\ trend = 0
    /\ \E n \in 1..Len(df_logs) : df_logs[n].date_logged = Today - Day(30)
    /\ \E n \in 1..Len(df_logs) : df_logs[n].date_logged = Today - Day(30) - 1
    /\ \E n \in 1..Len(df_logs) : df_logs[n].date_logged = NaT

\* C13: with an empty Service_Log frame (no rows, or the fetch failed) the
\* screens that read it, the home quick stats and the update screen with or
\* without a selected call, end their run without an uncaught exception.
C13_EmptyLogsNeverRaise ==
    (app = MobileApp /\ mobile_mode \in {"home", "update_log"}) => ~uncaught

\* C15: a serial number lookup that finds nothing, the Instruments frame
\* being empty or not fetched included, raises no exception and leaves
\* serial_lookup_mode False and looked_up_data None.
C15_LookupNeverRaises ==
    ((app = MobileApp /\ mobile_mode = "new_log") \/ app = Backup2App) =>
        /\ ~uncaught
        /\ looked_up_data = None => ~serial_lookup_mode

\* C18: the i-th request of a fetch (i = 0, 1, 2, ...) asks for the range
\* [i*page_size, i*page_size + page_size - 1], so the first range starts at
\* 0 and consecutive ranges are adjacent and do not overlap; start advances
\* by page_size only after a full page was received.
C18_RequestRanges ==
    /\ \A i \in 1..Len(requests) :
          /\ requests[i].from = (i - 1) * page_size
          /\ requests[i].to = (i - 1) * page_size + page_size - 1
    /\ start = page_size * Cardinality({i \in 1..Len(requests) :
                                          requests[i].got = page_size})

\* C19: a fetch of a finite, unchanged table terminates: the loop ends at a
\* short or empty page or at a failed request, after a bounded number of
\* requests, and in both cases a result is returned to the caller.
C19_FetchReturns ==
    /\ Len(requests) <= CeilDiv(Len(table_rows), page_size) + 1
    /\ fetch_pc = "done" => ~fetch_raised

(***************************************************************************)
(* Properties of the service log manager                                   *)
(***************************************************************************)
\* C14: no step deletes a row of Service_Log, so its number of rows never
\* decreases, and an update leaves the call_id and the customer_name of
\* every row as they were (as it does the other fields that identify the
\* call).
C14_RowsKeepIdentity ==
    [][/\ Len(Service_Log') >= Len(Service_Log)
       /\ \A n \in 1..Len(Service_Log) :
             /\ Service_Log'[n].call_id = Service_Log[n].call_id
             /\ Service_Log'[n].customer_name = Service_Log[n].customer_name]_vars

\* C16: no backend failure and no input ends the service log manager with
\* an uncaught exception: the menu runs until option 5 is chosen.
C16_MenuNeverRaises == menu_pc # "raised"

(***************************************************************************)
(* Properties of concurrent updates                                        *)
(***************************************************************************)
\* C20: when two sessions that loaded the same call have both saved an
\* update, both writes went through, and every updated field of the row
\* has the value of the update executed last: what that session's form
\* held, which for a widget it did not change is the value of its own
\* snapshot of the call, stale or not.
C20_LastWriteWins ==
    Len(write_order) = 2 =>
        LET last == write_order[2] IN
        /\ \A s \in Sessions : editor_pc[s] = "saved"
        /\ write_order[1] # last
        /\ \A f \in FormFields : live_call[f] = Sent(f, widgets[last][f])
        /\ \A f \in FormFields \ edited[last] :
              live_call[f] = Sent(f, Prefill(f, call[last][f]))
        /\ live_call.last_updated = now

\* the first writer changed the remarks, the last writer did not and saved
\* with the snapshot it took before: the first writer's remarks are gone
C20_Witness ==
    /\ Len(write_order) = 2
    /\ "remarks" \in edited[write_order[1]]
    /\ "remarks" \notin edited[write_order[2]]
    /\ call[write_order[2]].last_updated = 0
    /\ live_call.remarks # Sent("remarks", widgets[write_order[1]].remarks)
    /\ live_call.status = "Waiting for Parts"

LoggedSince(from) ==
    {n \in 1..Len(df_logs) :
        df_logs[n].date_logged # NaT /\ df_logs[n].date_logged >= from}

\* C25: a call whose date_logged is missing or unparseable gets days_open
\* 0; whatever its status it is not in the overdue list, and it is counted
\* neither in the two 30-day windows of the trend nor in the daily series
\* of the last 60 days.
C25_UndatedCallsLeftOut ==
    dash_pc = "done" =>
        /\ \A n \in 1..Len(df_logs) :
              df_logs[n].date_logged = NaT => df_logs[n].days_open = 0
        /\ \A n \in 1..Len(overdue_calls) : overdue_calls[n].date_logged # NaT
        /\ trend = Cardinality(LoggedSince(Today - Day(30)))
                   - Cardinality(LoggedSince(Today - Day(60))
                                    \ LoggedSince(Today - Day(30)))
        /\ SumOfCounts(daily_calls) = Cardinality(LoggedSince(Today - Day(60)))

\* an open call without date_logged next to an overdue one
C25_Witness ==
    /\ dash_pc = "done"
    /\ \E n \in 1..Len(df_logs) :
          df_logs[n].date_logged = NaT /\ df_logs[n].status = "Open"
    /\ Len(overdue_calls) = 1
    /\ Len(df_logs) = 2
    /\ daily_calls # {}

(***************************************************************************)
(* Invariants of the mobile session                                        *)
(***************************************************************************)
\* C27: update_success and a selected call are never both set: whenever
\* update_success is True, selected_call_for_update is None.
C27_SuccessWithoutSelection ==
    update_success => selected_call_for_update = NoCall

\* the success screen after a saved update of a call that was selected
C27_Witness ==
    /\ app = MobileApp
    /\ mobile_mode = "update_log"
    /\ update_success
    /\ selected_call_for_update = NoCall
    /\ \E n \in 1..Len(Service_Log) : Service_Log[n].status = "Solved"

\* C28: serial_lookup_mode is True only if looked_up_data holds an
\* instrument that was found, with its customer, instrument and serial
\* number; the two are set together and reset together.
C28_LookupModeHasData ==
    /\ serial_lookup_mode <=> looked_up_data # None
    /\ serial_lookup_mode =>
          /\ Len(looked_up_data) = 1
          /\ DOMAIN looked_up_data[1] =
                {"customer_name", "instrument_name", "serial_number"}
          /\ \E n \in 1..Len(Instruments) : Instruments[n] = looked_up_data[1]

\* a lookup has found an instrument in the new form
C28_Witness ==
    /\ app = MobileApp
    /\ mobile_mode = "new_log"
    /\ serial_lookup_mode
    /\ looked_up_data # None
    /\ run_pc = "idle"

\* the lookup state is reset by a submission made with a found instrument
C28_ResetWitness ==
    /\ app = Backup2App
    /\ form_submitted
    /\ ~serial_lookup_mode
    /\ looked_up_data = None
    /\ Service_Log_Pending # <<>>

\* C22: when an insert or update request fails, the session state is as
\* it was before the attempt: form_submitted and update_success stay False,
\* the selected call and the serial-lookup state are kept, the version
\* counter is not incremented, and nothing is written.
C22_FailedRequestKeepsSession ==
    [][failed_request' # "none" =>
          /\ UNCHANGED <<mobile_mode, form_submitted, update_success,
                         selected_call_for_update, serial_lookup_mode,
                         looked_up_data, mobile_version>>
          /\ ~form_submitted' /\ ~update_success'
          /\ failed_request' = "update" => selected_call_for_update' # NoCall
          /\ UNCHANGED <<Service_Log, Service_Log_Pending>>]_vars

\* an update request has failed with a call selected
C22_Witness ==
    /\ failed_request = "update"
    /\ selected_call_for_update # NoCall
    /\ mobile_version = 0

\* an insert request has failed with a looked-up instrument
C22_InsertWitness ==
    /\ failed_request = "insert"
    /\ serial_lookup_mode
    /\ ~form_submitted

\* C24: a submission whose problem description (on the update form: work
\* description) is only whitespace counts as a missing required field: it
\* is rejected and nothing is written, in both versions of the form.
C24_WhitespaceRejected ==
    [][/\ Service_Log_Pending' # Service_Log_Pending =>
             Strip(Service_Log_Pending'[Len(Service_Log_Pending')].problem_description)
                # Empty
       /\ (\E n \in 1..Len(errors') : errors'[n] = "action_taken") =>
             UNCHANGED <<Service_Log, update_success>>]_vars

Returned == {fetch_result[n] : n \in 1..Len(fetch_result)}

\* the result holds no row twice and every row present when the fetch began
CompleteWithoutRepeats ==
    /\ \A m, n \in 1..Len(fetch_result) :
          fetch_result[m] = fetch_result[n] => m = n
    /\ \A n \in 1..Len(rows_at_start) : rows_at_start[n] \in Returned

C21_WritesOnlyToUnsolved ==
    [][write_order' # write_order => live_call.status \in Unsolved]_vars

(***************************************************************************)
(* Properties of sort_logs                                                 *)
(***************************************************************************)
SortTyped == menu_choice.option = "3"

\* the printed frame holds the rows of the table, each once, in ascending
\* order of the field
SortedAscending(field) ==
    /\ Len(menu_frame) = Len(Service_Log)
    /\ \A n \in 1..Len(Service_Log) :
          \E m \in 1..Len(menu_frame) : menu_frame[m] = Service_Log[n]
    /\ \A m, n \in 1..Len(menu_frame) :
          m < n => TextOrder(menu_frame[m][field]) <= TextOrder(menu_frame[n][field])

\* C23: sort_logs rejects a field outside the four sortable ones with a
\* ValueError before any request is sent, and for an accepted field (the
\* fetch not failing) it returns all fetched logs in ascending order of
\* that field.
C23_SortLogs ==
    (SortTyped /\ menu_output # "NameError") =>
        IF menu_choice.field \notin SortableFields
        THEN menu_output = "Unsupported sort field" /\ ~menu_requested
        ELSE menu_output = "frame" /\ SortedAscending(menu_choice.field)

\* the part of C23 that holds: rejection comes before any request, and a
\* table with rows is returned whole and in ascending order
C23_HoldsOnRows ==
    (SortTyped /\ menu_output \notin {"NameError", "KeyError"}) =>
        IF menu_choice.field \notin SortableFields
        THEN menu_output = "Unsupported sort field" /\ ~menu_requested
        ELSE menu_output = "frame" /\ SortedAscending(menu_choice.field)

\* a sort that had to reorder the rows was printed
C23_ReorderedWitness ==
    /\ SortTyped
    /\ menu_output = "frame"
    /\ menu_frame # Service_Log

====
